---- MODULE Spec2Model ----
(***************************************************************************)
(* Abyss CLI (Abyss/Toolkits/abyss-cli.py): the client of a public-key     *)
(* challenge-response login.  One run of the program is one flow: open,    *)
(* destroy, valid or create.  Text (response bodies, keys, URLs) is a      *)
(* sequence of one-character strings; bytes are sequences of 0..255.       *)
(***************************************************************************)
EXTENDS Integers, Sequences, FiniteSets, TLC

(***************************************************************************)
(* Bounds of the model.                                                    *)
(***************************************************************************)
\* Response bodies are every text over BodyAlphabet of at most this length,
\* plus the named sample bodies.
MaxBodyLen == 2

(***************************************************************************)
(* Text helpers.                                                           *)
(***************************************************************************)
RECURSIVE SeqsUpTo(_, _)
SeqsUpTo(S, n) ==
  IF n = 0 THEN {<<>>}
  ELSE LET shorter == SeqsUpTo(S, n - 1)
       IN shorter \cup {Append(s, c) : s \in {t \in shorter : Len(t) = n - 1}, c \in S}

DQ == "\""
BS == "\\"

\* str.strip() of the whitespace that occurs in the modelled texts.
WhiteSpace == {" ", "\t", "\n", "\r"}

RECURSIVE lstrip(_, _)
lstrip(text, chars) ==
  IF text # <<>> /\ Head(text) \in chars THEN lstrip(Tail(text), chars) ELSE text

RECURSIVE rstrip(_, _)
rstrip(text, chars) ==
  IF text # <<>> /\ text[Len(text)] \in chars
  THEN rstrip(SubSeq(text, 1, Len(text) - 1), chars) ELSE text

strip(text) == rstrip(lstrip(text, WhiteSpace), WhiteSpace)

(***************************************************************************)
(* base64 (the standard library's b64decode / b64encode).                  *)
(***************************************************************************)
B64Alphabet ==
  << "A","B","C","D","E","F","G","H","I","J","K","L","M","N","O","P",
     "Q","R","S","T","U","V","W","X","Y","Z","a","b","c","d","e","f",
     "g","h","i","j","k","l","m","n","o","p","q","r","s","t","u","v",
     "w","x","y","z","0","1","2","3","4","5","6","7","8","9","+","/" >>

B64Chars == {B64Alphabet[i] : i \in 1..Len(B64Alphabet)}

B64Index(c) == (CHOOSE i \in 1..Len(B64Alphabet) : B64Alphabet[i] = c) - 1

\* binascii.a2b_base64 in its default, non-strict mode, as base64.b64decode
\* calls it: characters outside the alphabet are skipped, a complete pad
\* sequence ends the parse, and an incomplete last quad is an error.
RECURSIVE a2b_base64(_, _, _, _, _, _)
a2b_base64(s, i, quad_pos, leftchar, pads, out) ==
  IF i > Len(s)
  THEN IF quad_pos # 0
       THEN [ok |-> FALSE, bytes |-> <<>>]
       ELSE [ok |-> TRUE, bytes |-> out]
  ELSE IF quad_pos = 0 /\ i + 3 <= Len(s) /\ \A j \in i..(i + 3) : s[j] \in B64Chars
  THEN \* four rounds of the loop at once: a whole quad of alphabet characters
       LET c1 == B64Index(s[i])
           c2 == B64Index(s[i + 1])
           c3 == B64Index(s[i + 2])
           c4 == B64Index(s[i + 3])
       IN a2b_base64(s, i + 4, 0, 0, 0,
                     out \o << c1 * 4 + (c2 \div 16),
                               (c2 % 16) * 16 + (c3 \div 4),
                               (c3 % 4) * 64 + c4 >>)
  ELSE IF s[i] = "="
  THEN IF quad_pos >= 2 /\ quad_pos + pads + 1 >= 4
       THEN [ok |-> TRUE, bytes |-> out]
       ELSE a2b_base64(s, i + 1, quad_pos, leftchar,
                       IF quad_pos >= 2 THEN pads + 1 ELSE pads, out)
  ELSE IF s[i] \notin B64Chars
  THEN a2b_base64(s, i + 1, quad_pos, leftchar, pads, out)
  ELSE LET c == B64Index(s[i])
       IN CASE quad_pos = 0 -> a2b_base64(s, i + 1, 1, c, 0, out)
            [] quad_pos = 1 ->
                 a2b_base64(s, i + 1, 2, c % 16, 0,
                            Append(out, leftchar * 4 + (c \div 16)))
            [] quad_pos = 2 ->
                 a2b_base64(s, i + 1, 3, c % 4, 0,
                            Append(out, leftchar * 16 + (c \div 4)))
            [] OTHER ->
                 a2b_base64(s, i + 1, 0, 0, 0, Append(out, leftchar * 64 + c))

\* base64.b64decode(s): [ok, bytes]; ok = FALSE is the binascii.Error raised.
b64decode(s) == a2b_base64(s, 1, 0, 0, 0, <<>>)

\* base64.b64encode(bytes): a quad of characters for every three bytes, the
\* last quad padded with "="
b64encode(bytes) ==
  LET n == Len(bytes)
      byte(k) == IF k <= n THEN bytes[k] ELSE 0
      char(i) ==
        LET g == (i - 1) \div 4
            j == (i - 1) % 4
            b1 == byte(3 * g + 1)
            b2 == byte(3 * g + 2)
            b3 == byte(3 * g + 3)
        IN CASE j = 0 -> B64Alphabet[(b1 \div 4) + 1]
             [] j = 1 -> B64Alphabet[((b1 % 4) * 16 + (b2 \div 16)) + 1]
             [] j = 2 -> IF 3 * g + 2 > n THEN "="
                         ELSE B64Alphabet[((b2 % 16) * 4 + (b3 \div 64)) + 1]
             [] OTHER -> IF 3 * g + 3 > n THEN "="
                         ELSE B64Alphabet[(b3 % 64) + 1]
  IN [i \in 1..(4 * ((n + 2) \div 3)) |-> char(i)]

(***************************************************************************)
(* json.loads on a stripped, non-empty text, as far as the modelled bodies *)
(* need it: string literals (with the one-character escapes), the literal  *)
(* names, integers and empty containers.  Texts with \u escapes, floats or *)
(* non-empty containers do not occur among the bodies drawn below.         *)
(***************************************************************************)
ControlChars == {"\t", "\n", "\r", "\f"}

JsonEscape(c) ==
  CASE c = DQ -> DQ
    [] c = BS -> BS
    [] c = "/" -> "/"
    [] c = "n" -> "\n"
    [] c = "t" -> "\t"
    [] c = "r" -> "\r"
    [] c = "f" -> "\f"
    [] OTHER -> ""

\* json.decoder.py_scanstring from index i: [ok, str, end], end the index
\* of the closing quote.
RECURSIVE scanstring(_, _, _)
scanstring(s, i, out) ==
  IF i > Len(s) THEN [ok |-> FALSE, str |-> <<>>, end |-> 0]
  ELSE IF s[i] = DQ THEN [ok |-> TRUE, str |-> out, end |-> i]
  ELSE IF s[i] \in ControlChars THEN [ok |-> FALSE, str |-> <<>>, end |-> 0]
  ELSE IF s[i] = BS
  THEN IF i + 1 > Len(s) \/ JsonEscape(s[i + 1]) = ""
       THEN [ok |-> FALSE, str |-> <<>>, end |-> 0]
       ELSE scanstring(s, i + 2, Append(out, JsonEscape(s[i + 1])))
  ELSE scanstring(s, i + 1, Append(out, s[i]))

Digits == {"0", "1", "2", "3", "4", "5", "6", "7", "8", "9"}

IsJsonInt(text) ==
  LET d == IF text # <<>> /\ Head(text) = "-" THEN Tail(text) ELSE text
  IN /\ d # <<>>
     /\ \A i \in 1..Len(d) : d[i] \in Digits
     /\ (Len(d) > 1 => d[1] # "0")

\* The names the decoder accepts, with Python's str() of their values.
JsonNames ==
  << << <<"n","u","l","l">>, <<"N","o","n","e">> >>,
     << <<"t","r","u","e">>, <<"T","r","u","e">> >>,
     << <<"f","a","l","s","e">>, <<"F","a","l","s","e">> >>,
     << <<"N","a","N">>, <<"n","a","n">> >>,
     << <<"I","n","f","i","n","i","t","y">>, <<"i","n","f">> >>,
     << <<"-","I","n","f","i","n","i","t","y">>, <<"-","i","n","f">> >> >>

IsEmptyContainer(text, open, close) ==
  /\ Len(text) >= 2
  /\ text[1] = open
  /\ text[Len(text)] = close
  /\ \A i \in 2..(Len(text) - 1) : text[i] \in (WhiteSpace \ {"\f"})

\* json.loads(text): [ok, isStr, str]; for a value that is not a string,
\* str is Python's str() of it.
json_loads(text) ==
  LET bad == [ok |-> FALSE, isStr |-> FALSE, str |-> <<>>]
  IN IF text = <<>> THEN bad
     ELSE IF text[1] = DQ
     THEN LET sc == scanstring(text, 2, <<>>)
          IN IF sc.ok /\ sc.end = Len(text)
             THEN [ok |-> TRUE, isStr |-> TRUE, str |-> sc.str]
             ELSE bad
     ELSE IF \E k \in 1..Len(JsonNames) : JsonNames[k][1] = text
     THEN [ok |-> TRUE, isStr |-> FALSE,
           str |-> JsonNames[CHOOSE k \in 1..Len(JsonNames) : JsonNames[k][1] = text][2]]
     ELSE IF IsJsonInt(text)
     THEN [ok |-> TRUE, isStr |-> FALSE,
           str |-> IF text = <<"-", "0">> THEN <<"0">> ELSE text]
     ELSE IF IsEmptyContainer(text, "{", "}")
     THEN [ok |-> TRUE, isStr |-> FALSE, str |-> <<"{", "}">>]
     ELSE IF IsEmptyContainer(text, "[", "]")
     THEN [ok |-> TRUE, isStr |-> FALSE, str |-> <<"[", "]">>]
     ELSE bad

\* parse_possibly_json_string(text)
parse_possibly_json_string(text0) ==
  LET text == strip(text0)
  IN IF text = <<>> THEN <<>>
     ELSE LET parsed == json_loads(text)
          IN IF parsed.ok
             THEN parsed.str
             ELSE IF text[1] = DQ /\ text[Len(text)] = DQ /\ Len(text) >= 2
                  THEN SubSeq(text, 2, Len(text) - 1)
                  ELSE text

(***************************************************************************)
(* Ed25519 (PyNaCl).  The curve arithmetic is the library's: a signature   *)
(* is kept as the term (seed, message) it is a function of, and the public *)
(* key as a deterministic 32-byte function of the seed.                    *)
(***************************************************************************)
SeedLen == 32
RawPrivLen == 64

NoSig == [seed |-> <<>>, msg |-> <<>>]

\* SigningKey(seed).sign(data).signature, base64-encoded
Ed25519Sign(seed, data) == [seed |-> seed, msg |-> data]

\* SigningKey(seed).verify_key.encode()
DerivePublic(seed) == [i \in 1..Len(seed) |-> (seed[i] * 5 + 7) % 256]

\* sign_with_private_base64 without the check of the decoded length
sign_with_private_base64_any_length(private_base64, data) ==
  LET dec == b64decode(private_base64)
      raw == dec.bytes
  IN IF ~dec.ok
     THEN [ok |-> FALSE, err |-> "privateKeyBase64 is not valid base64",
           n |-> 0, sig |-> NoSig]
     ELSE IF Len(raw) = RawPrivLen
     THEN [ok |-> TRUE, err |-> "", n |-> 0,
           sig |-> Ed25519Sign(SubSeq(raw, 1, SeedLen), data)]
     ELSE [ok |-> TRUE, err |-> "", n |-> 0, sig |-> Ed25519Sign(raw, data)]

\* sign_with_private_base64 refusing a 64-byte key whose last 32 bytes are
\* not the public key of its seed
sign_with_private_base64_checks_public(private_base64, data) ==
  LET dec == b64decode(private_base64)
      raw == dec.bytes
  IN IF ~dec.ok
     THEN [ok |-> FALSE, err |-> "privateKeyBase64 is not valid base64",
           n |-> 0, sig |-> NoSig]
     ELSE IF Len(raw) = SeedLen
     THEN [ok |-> TRUE, err |-> "", n |-> 0, sig |-> Ed25519Sign(raw, data)]
     ELSE IF Len(raw) = RawPrivLen
             /\ SubSeq(raw, SeedLen + 1, RawPrivLen) = DerivePublic(SubSeq(raw, 1, SeedLen))
     THEN [ok |-> TRUE, err |-> "", n |-> 0,
           sig |-> Ed25519Sign(SubSeq(raw, 1, SeedLen), data)]
     ELSE [ok |-> FALSE, err |-> "Unsupported private key length",
           n |-> Len(raw), sig |-> NoSig]

\* sign_with_private_base64(private_base64, data): [ok, err, n, sig];
\* ok = FALSE is the ValueError raised, err its message, n the length in it.
sign_with_private_base64(private_base64, data) ==
  LET dec == b64decode(private_base64)
      raw == dec.bytes
  IN IF ~dec.ok
     THEN [ok |-> FALSE, err |-> "privateKeyBase64 is not valid base64",
           n |-> 0, sig |-> NoSig]
     ELSE IF Len(raw) = SeedLen
     THEN [ok |-> TRUE, err |-> "", n |-> 0, sig |-> Ed25519Sign(raw, data)]
     ELSE IF Len(raw) = RawPrivLen
     THEN [ok |-> TRUE, err |-> "", n |-> 0,
           sig |-> Ed25519Sign(SubSeq(raw, 1, SeedLen), data)]
     ELSE [ok |-> FALSE, err |-> "Unsupported private key length",
           n |-> Len(raw), sig |-> NoSig]

\* generate_keypair_base64 with priv_raw = vk + seed
generate_keypair_base64_public_first(seed) ==
  LET vk == DerivePublic(seed)
  IN [priv |-> b64encode(vk \o seed), pub |-> b64encode(vk)]

\* generate_keypair_base64() for the seed SigningKey.generate() drew
generate_keypair_base64(seed) ==
  LET vk == DerivePublic(seed)
  IN [priv |-> b64encode(seed \o vk), pub |-> b64encode(vk)]

(***************************************************************************)
(* HTTP helpers.                                                           *)
(***************************************************************************)
\* create_session keeping the trailing slashes of the base address
create_session_keeps_slashes(base_url) == base_url \o <<"/">>

\* create_session(base_url).base_url
create_session(base_url) == rstrip(base_url, {"/"}) \o <<"/">>

\* _full_url(session, path)
full_url(base, path) == base \o lstrip(path, {"/"})

\* urllib.parse.quote(s, safe=''): every character but the unreserved ones
\* is percent-encoded.
Unreserved == (B64Chars \ {"+", "/"}) \cup {"_", ".", "-", "~"}

PercentCode(c) ==
  CASE c = " " -> <<"%", "2", "0">>
    [] c = "!" -> <<"%", "2", "1">>
    [] c = DQ -> <<"%", "2", "2">>
    [] c = "%" -> <<"%", "2", "5">>
    [] c = "&" -> <<"%", "2", "6">>
    [] c = "+" -> <<"%", "2", "B">>
    [] c = "/" -> <<"%", "2", "F">>
    [] c = "=" -> <<"%", "3", "D">>
    [] c = "?" -> <<"%", "3", "F">>
    [] OTHER -> <<"%", "?", "?">>

RECURSIVE quote(_)
quote(s) ==
  IF s = <<>> THEN <<>>
  ELSE (IF Head(s) \in Unreserved THEN <<Head(s)>> ELSE PercentCode(Head(s)))
       \o quote(Tail(s))

ApiUser == <<"a","p","i","/","u","s","e","r","/">>
UserPath(user) == ApiUser \o quote(user)
ValidatePath(token) ==
  ApiUser \o <<"v","a","l","i","d","a","t","e","?","t","o","k","e","n","=">> \o quote(token)
DestroyPath(token) ==
  ApiUser \o <<"d","e","s","t","r","o","y","?","t","o","k","e","n","=">> \o quote(token)

\* requests.Response.ok
ok(r) == r.status < 400

\* try_read_response_text(resp)
try_read_response_text(resp) == IF resp.readable THEN resp.text ELSE <<>>

(***************************************************************************)
(* Inputs: the command line, and what the service may answer.              *)
(***************************************************************************)
BaseUrls == { <<"h">>, <<"h", "/", "/">> }
Users == { <<"a","l","i","c","e">>, <<"a","/","b">> }
NewUsernames == { <<"b","o","b">> }
Privileges == {0, 1}
Tokens == { <<"t","o","k","-","1","2","3">>, <<"t"," ","=">> }

\* The caller's seed, and the seeds SigningKey.generate() may draw.
CallerSeed == [i \in 1..SeedLen |-> (3 * i) % 256]
GeneratedSeeds == { [i \in 1..SeedLen |-> (k + i) % 256] : k \in {100, 200} }

Key32 == b64encode(CallerSeed)
Key64 == b64encode(CallerSeed \o DerivePublic(CallerSeed))
\* a missing pad character: b64decode raises
KeyBadPadding == SubSeq(Key32, 1, Len(Key32) - 1)
\* decodes to 31 bytes
KeyBadLength == b64encode(SubSeq(CallerSeed, 1, SeedLen - 1))
\* a character outside the alphabet in the middle of the 32-byte key
KeyWithJunk == SubSeq(Key32, 1, 4) \o <<"!">> \o SubSeq(Key32, 5, Len(Key32))
PrivateKeys == {Key32, Key64, KeyBadPadding, KeyBadLength, KeyWithJunk}

BodyAlphabet == {"A", "=", DQ, "!"}
SampleBodies ==
  { <<DQ, "A", "A", "A", "A", DQ>>,
    <<"A", "A", "A", "A">>,
    <<"A", "A", "A", "A", "!">>,
    <<"A", "A", "A">>,
    <<DQ, "t", "o", "k", "-", "1", "2", "3", DQ>>,
    <<DQ, "a", "l", "i", "c", "e", DQ>>,
    <<" ">>,
    <<"n", "u", "l", "l">>,
    <<"{", "}">> }
Bodies == SeqsUpTo(BodyAlphabet, MaxBodyLen) \cup SampleBodies
Statuses == {200, 401, 403}

\* What a request ends in: a response, or the exception requests raises
\* (connection failure, timeout).
NoResponse == [kind |-> "none", status |-> 0, text |-> <<>>, readable |-> TRUE, e |-> ""]
Pending == [NoResponse EXCEPT !.kind = "pending"]
Responses ==
  { [kind |-> "resp", status |-> st, text |-> b, readable |-> TRUE, e |-> ""] :
      st \in Statuses, b \in Bodies }
  \cup { [kind |-> "resp", status |-> st, text |-> <<>>, readable |-> FALSE, e |-> ""] :
           st \in Statuses }
Exceptions ==
  { [kind |-> "exc", status |-> 0, text |-> <<>>, readable |-> TRUE, e |-> x] :
      x \in {"ConnectionError", "Timeout"} }
Outcomes == Responses \cup Exceptions

\* What the service answers when the caller's repeated runs are followed: a
\* few outcomes, with two different challenges among them.
RetryBodies ==
  { <<DQ, "A", "A", "A", "A", DQ>>, <<"A", "Q", "I", "D">>, <<"A", "A", "A">>, <<>> }
RetryOutcomes ==
  { r \in Exceptions : r.e = "Timeout" }
  \cup { [kind |-> "resp", status |-> st, text |-> b, readable |-> TRUE, e |-> ""] :
           st \in {200, 401}, b \in RetryBodies }

NoArgs ==
  [baseUrl |-> <<>>, user |-> <<>>, privateKeyBase64 |-> <<>>, token |-> <<>>,
   newUsername |-> <<>>, privilege |-> 0]
ArgsOf(c) ==
  CASE c = "open" ->
         { [NoArgs EXCEPT !.baseUrl = b, !.user = u, !.privateKeyBase64 = k] :
             b \in BaseUrls, u \in Users, k \in PrivateKeys }
    [] c = "create" ->
         { [NoArgs EXCEPT !.baseUrl = b, !.user = u, !.privateKeyBase64 = k,
                          !.newUsername = n, !.privilege = p] :
             b \in BaseUrls, u \in Users, k \in PrivateKeys,
             n \in NewUsernames, p \in Privileges }
    [] OTHER ->
         { [NoArgs EXCEPT !.baseUrl = b, !.token = t] : b \in BaseUrls, t \in Tokens }

\* The JSON body of a request: has names the fields it carries.
NoPayload ==
  [has |-> {}, Response |-> NoSig, Name |-> <<>>, Parent |-> <<>>,
   Privilege |-> 0, PublicKey |-> <<>>]
Request(method, url, payload) == [method |-> method, url |-> url, json |-> payload]

\* One printed line: a fixed text, and the values formatted into it.
Line(msg, status, text, e) == [msg |-> msg, status |-> status, text |-> text, e |-> e]
\* "HTTP <status>" followed by the body when it is not empty
HttpError(msg, r) ==
  <<Line(msg, r.status, <<>>, "")>>
  \o (IF try_read_response_text(r) # <<>>
      THEN <<Line("", 0, try_read_response_text(r), "")>> ELSE <<>>)

NoKeys == [priv |-> <<>>, pub |-> <<>>]

(***************************************************************************)
(* State.                                                                  *)
(***************************************************************************)
VARIABLES
  cmd,                \* args.cmd
  args,               \* the parsed command line
  pc,                 \* where the flow stands
  net,                \* the request in flight, or what it ended in (r, r2)
  sent,               \* the requests issued so far, in order
  challenge_bytes,    \* the decoded challenge
  signature_base64,   \* the proof
  new_keys,           \* (new_priv_b64, new_pub_b64)
  stdout,             \* lines printed
  stderr,             \* lines printed to sys.stderr
  rc,                 \* the exit status; -1 while the flow runs
  history             \* what the caller's earlier runs of this command fetched and sent

vars == <<cmd, args, pc, net, sent, challenge_bytes, signature_base64, new_keys,
          stdout, stderr, rc, history>>

locals == <<challenge_bytes, signature_base64, new_keys>>

Commands == {"open", "destroy", "valid", "create"}
Terminal == {"Authenticated", "Done", "Invalid", "Failed"}

\* The sets the environment draws from are finite and not empty.
InputsDrawn ==
  /\ Cardinality(Outcomes) > 0
  /\ Cardinality(RetryOutcomes) > 0
  /\ Cardinality(GeneratedSeeds) > 0

Init ==
  /\ InputsDrawn
  /\ cmd \in Commands
  /\ args \in ArgsOf(cmd)
  /\ pc = "Idle"
  /\ net = NoResponse
  /\ sent = <<>>
  /\ challenge_bytes = <<>>
  /\ signature_base64 = NoSig
  /\ new_keys = NoKeys
  /\ stdout = <<>>
  /\ stderr = <<>>
  /\ rc = -1
  /\ history = <<>>

\* print(..., file=sys.stderr); return 1
Fail(lines) ==
  /\ stderr' = stderr \o lines
  /\ rc' = 1
  /\ pc' = "Failed"

\* sess.get / sess.post / sess.request: the request leaves
Issue(req, next) ==
  /\ sent' = Append(sent, req)
  /\ net' = Pending
  /\ pc' = next

\* The service answers the request in flight, or the transport fails.
Exchange(outcomes) ==
  /\ net.kind = "pending"
  /\ net' \in outcomes
  /\ UNCHANGED <<cmd, args, history, pc, sent, locals, stdout, stderr, rc>>

http_exchange == Exchange(Outcomes)

(***************************************************************************)
(* open <baseUrl> <user> <privateKeyBase64>                                *)
(***************************************************************************)
\* cmd_open, up to sess.get
cmd_open_get ==
  /\ cmd = "open" /\ pc = "Idle"
  /\ Issue(Request("GET", full_url(create_session(args.baseUrl), UserPath(args.user)),
                   NoPayload),
           "ChallengeRequested")
  /\ UNCHANGED <<cmd, args, history, locals, stdout, stderr, rc>>

\* cmd_open_challenge without the "if not r.ok" branch
cmd_open_challenge_no_status_check ==
  /\ cmd = "open" /\ pc = "ChallengeRequested" /\ net.kind \in {"resp", "exc"}
  /\ LET challenge == parse_possibly_json_string(try_read_response_text(net))
         dec == b64decode(challenge)
     IN IF net.kind = "exc"
        THEN /\ Fail(<<Line("Failed to GET challenge: ", 0, <<>>, net.e)>>)
             /\ UNCHANGED challenge_bytes
        ELSE IF ~dec.ok
        THEN /\ Fail(<<Line("Challenge is not valid base64.", 0, <<>>, "")>>)
             /\ UNCHANGED challenge_bytes
        ELSE /\ challenge_bytes' = dec.bytes
             /\ pc' = "ChallengeReceived"
             /\ UNCHANGED <<stderr, rc>>
  /\ UNCHANGED <<cmd, args, history, net, sent, signature_base64, new_keys, stdout>>

\* cmd_open, from the GET's outcome to the decoded challenge
cmd_open_challenge ==
  /\ cmd = "open" /\ pc = "ChallengeRequested" /\ net.kind \in {"resp", "exc"}
  /\ LET challenge == parse_possibly_json_string(try_read_response_text(net))
         dec == b64decode(challenge)
     IN IF net.kind = "exc"
        THEN /\ Fail(<<Line("Failed to GET challenge: ", 0, <<>>, net.e)>>)
             /\ UNCHANGED challenge_bytes
        ELSE IF ~ok(net)
        THEN /\ Fail(HttpError("Failed to get challenge: HTTP", net))
             /\ UNCHANGED challenge_bytes
        ELSE IF ~dec.ok
        THEN /\ Fail(<<Line("Challenge is not valid base64.", 0, <<>>, "")>>)
             /\ UNCHANGED challenge_bytes
        ELSE /\ challenge_bytes' = dec.bytes
             /\ pc' = "ChallengeReceived"
             /\ UNCHANGED <<stderr, rc>>
  /\ UNCHANGED <<cmd, args, history, net, sent, signature_base64, new_keys, stdout>>

\* cmd_open, signing and sess.post
cmd_open_sign ==
  /\ cmd = "open" /\ pc = "ChallengeReceived"
  /\ LET s == sign_with_private_base64(args.privateKeyBase64, challenge_bytes)
     IN IF ~s.ok
        THEN /\ Fail(<<Line("Signing failed: ", s.n, <<>>, s.err)>>)
             /\ UNCHANGED <<signature_base64, sent, net>>
        ELSE /\ signature_base64' = s.sig
             /\ Issue(Request("POST",
                              full_url(create_session(args.baseUrl), UserPath(args.user)),
                              [NoPayload EXCEPT !.has = {"Response"}, !.Response = s.sig]),
                      "ResponseSubmitted")
             /\ UNCHANGED <<stderr, rc>>
  /\ UNCHANGED <<cmd, args, history, challenge_bytes, new_keys, stdout>>

\* cmd_open_token without the "if not r2.ok" branch
cmd_open_token_ignores_status ==
  /\ cmd = "open" /\ pc = "ResponseSubmitted" /\ net.kind \in {"resp", "exc"}
  /\ LET token == parse_possibly_json_string(try_read_response_text(net))
     IN IF net.kind = "exc"
        THEN /\ Fail(<<Line("Failed to POST response: ", 0, <<>>, net.e)>>)
             /\ UNCHANGED stdout
        ELSE IF token = <<>>
        THEN /\ Fail(<<Line("Authentication failed or server returned no token.",
                            0, <<>>, "")>>)
             /\ UNCHANGED stdout
        ELSE /\ stdout' = Append(stdout, Line("", 0, token, ""))
             /\ rc' = 0
             /\ pc' = "Authenticated"
             /\ UNCHANGED stderr
  /\ UNCHANGED <<cmd, args, history, net, sent, locals>>

\* cmd_open_token printing token_text, the body as received, for token
cmd_open_token_prints_body ==
  /\ cmd = "open" /\ pc = "ResponseSubmitted" /\ net.kind \in {"resp", "exc"}
  /\ LET token == parse_possibly_json_string(try_read_response_text(net))
     IN IF net.kind = "exc"
        THEN /\ Fail(<<Line("Failed to POST response: ", 0, <<>>, net.e)>>)
             /\ UNCHANGED stdout
        ELSE IF ~ok(net)
        THEN /\ Fail(HttpError("Authentication failed: HTTP", net))
             /\ UNCHANGED stdout
        ELSE IF token = <<>>
        THEN /\ Fail(<<Line("Authentication failed or server returned no token.",
                            0, <<>>, "")>>)
             /\ UNCHANGED stdout
        ELSE /\ stdout' = Append(stdout, Line("", 0, try_read_response_text(net), ""))
             /\ rc' = 0
             /\ pc' = "Authenticated"
             /\ UNCHANGED stderr
  /\ UNCHANGED <<cmd, args, history, net, sent, locals>>

\* cmd_open, from the POST's outcome to the printed token
cmd_open_token ==
  /\ cmd = "open" /\ pc = "ResponseSubmitted" /\ net.kind \in {"resp", "exc"}
  /\ LET token == parse_possibly_json_string(try_read_response_text(net))
     IN IF net.kind = "exc"
        THEN /\ Fail(<<Line("Failed to POST response: ", 0, <<>>, net.e)>>)
             /\ UNCHANGED stdout
        ELSE IF ~ok(net)
        THEN /\ Fail(HttpError("Authentication failed: HTTP", net))
             /\ UNCHANGED stdout
        ELSE IF token = <<>>
        THEN /\ Fail(<<Line("Authentication failed or server returned no token.",
                            0, <<>>, "")>>)
             /\ UNCHANGED stdout
        ELSE /\ stdout' = Append(stdout, Line("", 0, token, ""))
             /\ rc' = 0
             /\ pc' = "Authenticated"
             /\ UNCHANGED stderr
  /\ UNCHANGED <<cmd, args, history, net, sent, locals>>

(***************************************************************************)
(* destroy <baseUrl> <token>                                               *)
(***************************************************************************)
\* cmd_destroy, up to sess.post
cmd_destroy_post ==
  /\ cmd = "destroy" /\ pc = "Idle"
  /\ Issue(Request("POST",
                   full_url(create_session(args.baseUrl), DestroyPath(args.token)),
                   NoPayload),
           "DestroyRequested")
  /\ UNCHANGED <<cmd, args, history, locals, stdout, stderr, rc>>

\* cmd_destroy_result taking a success response with an empty body for a failure
cmd_destroy_result_reads_body ==
  /\ cmd = "destroy" /\ pc = "DestroyRequested" /\ net.kind \in {"resp", "exc"}
  /\ IF net.kind = "exc"
     THEN /\ Fail(<<Line("Destroy request failed: ", 0, <<>>, net.e)>>)
          /\ UNCHANGED stdout
     ELSE IF ~ok(net) \/ parse_possibly_json_string(try_read_response_text(net)) = <<>>
     THEN /\ Fail(HttpError("Destroy failed: HTTP", net))
          /\ UNCHANGED stdout
     ELSE /\ stdout' = Append(stdout, Line("Success", 0, <<>>, ""))
          /\ rc' = 0
          /\ pc' = "Done"
          /\ UNCHANGED stderr
  /\ UNCHANGED <<cmd, args, history, net, sent, locals>>

\* cmd_destroy, from the POST's outcome on
cmd_destroy_result ==
  /\ cmd = "destroy" /\ pc = "DestroyRequested" /\ net.kind \in {"resp", "exc"}
  /\ IF net.kind = "exc"
     THEN /\ Fail(<<Line("Destroy request failed: ", 0, <<>>, net.e)>>)
          /\ UNCHANGED stdout
     ELSE IF ~ok(net)
     THEN /\ Fail(HttpError("Destroy failed: HTTP", net))
          /\ UNCHANGED stdout
     ELSE /\ stdout' = Append(stdout, Line("Success", 0, <<>>, ""))
          /\ rc' = 0
          /\ pc' = "Done"
          /\ UNCHANGED stderr
  /\ UNCHANGED <<cmd, args, history, net, sent, locals>>

(***************************************************************************)
(* valid <baseUrl> <token>                                                 *)
(***************************************************************************)
\* cmd_valid, up to sess.post
cmd_valid_post ==
  /\ cmd = "valid" /\ pc = "Idle"
  /\ Issue(Request("POST",
                   full_url(create_session(args.baseUrl), ValidatePath(args.token)),
                   NoPayload),
           "ValidateRequested")
  /\ UNCHANGED <<cmd, args, history, locals, stdout, stderr, rc>>

\* print("Invalid"); return 1
Invalid ==
  /\ stdout' = Append(stdout, Line("Invalid", 0, <<>>, ""))
  /\ rc' = 1
  /\ pc' = "Invalid"
  /\ UNCHANGED stderr

\* cmd_valid_result reporting a non-success response as cmd_destroy does
cmd_valid_result_hard_error ==
  /\ cmd = "valid" /\ pc = "ValidateRequested" /\ net.kind \in {"resp", "exc"}
  /\ LET username == parse_possibly_json_string(try_read_response_text(net))
     IN IF net.kind = "exc"
        THEN /\ Fail(<<Line("Validate request failed: ", 0, <<>>, net.e)>>)
             /\ UNCHANGED stdout
        ELSE IF ~ok(net)
        THEN /\ Fail(HttpError("Validate failed: HTTP", net))
             /\ UNCHANGED stdout
        ELSE IF username = <<>>
        THEN Invalid
        ELSE /\ stdout' = Append(stdout, Line("", 0, username, ""))
             /\ rc' = 0
             /\ pc' = "Done"
             /\ UNCHANGED stderr
  /\ UNCHANGED <<cmd, args, history, net, sent, locals>>

\* cmd_valid, from the POST's outcome on
cmd_valid_result ==
  /\ cmd = "valid" /\ pc = "ValidateRequested" /\ net.kind \in {"resp", "exc"}
  /\ LET username == parse_possibly_json_string(try_read_response_text(net))
     IN IF net.kind = "exc"
        THEN /\ Fail(<<Line("Validate request failed: ", 0, <<>>, net.e)>>)
             /\ UNCHANGED stdout
        ELSE IF ~ok(net)
        THEN Invalid
        ELSE IF username = <<>>
        THEN Invalid
        ELSE /\ stdout' = Append(stdout, Line("", 0, username, ""))
             /\ rc' = 0
             /\ pc' = "Done"
             /\ UNCHANGED stderr
  /\ UNCHANGED <<cmd, args, history, net, sent, locals>>

(***************************************************************************)
(* create <baseUrl> <user> <privateKeyBase64> <newUsername> <privilege>    *)
(***************************************************************************)
\* cmd_create, up to sess.get
cmd_create_get ==
  /\ cmd = "create" /\ pc = "Idle"
  /\ Issue(Request("GET", full_url(create_session(args.baseUrl), UserPath(args.user)),
                   NoPayload),
           "ChallengeRequested")
  /\ UNCHANGED <<cmd, args, history, locals, stdout, stderr, rc>>

\* cmd_create_challenge without the "if not r.ok" branch
cmd_create_challenge_no_status_check ==
  /\ cmd = "create" /\ pc = "ChallengeRequested" /\ net.kind \in {"resp", "exc"}
  /\ LET challenge == parse_possibly_json_string(try_read_response_text(net))
         dec == b64decode(challenge)
     IN IF net.kind = "exc"
        THEN /\ Fail(<<Line("Failed to GET challenge for creator: ", 0, <<>>, net.e)>>)
             /\ UNCHANGED challenge_bytes
        ELSE IF ~dec.ok
        THEN /\ Fail(<<Line("Challenge is not valid base64.", 0, <<>>, "")>>)
             /\ UNCHANGED challenge_bytes
        ELSE /\ challenge_bytes' = dec.bytes
             /\ pc' = "ChallengeReceived"
             /\ UNCHANGED <<stderr, rc>>
  /\ UNCHANGED <<cmd, args, history, net, sent, signature_base64, new_keys, stdout>>

\* cmd_create, from the GET's outcome to the decoded challenge
cmd_create_challenge ==
  /\ cmd = "create" /\ pc = "ChallengeRequested" /\ net.kind \in {"resp", "exc"}
  /\ LET challenge == parse_possibly_json_string(try_read_response_text(net))
         dec == b64decode(challenge)
     IN IF net.kind = "exc"
        THEN /\ Fail(<<Line("Failed to GET challenge for creator: ", 0, <<>>, net.e)>>)
             /\ UNCHANGED challenge_bytes
        ELSE IF ~ok(net)
        THEN /\ Fail(HttpError("Failed to get challenge for creator: HTTP", net))
             /\ UNCHANGED challenge_bytes
        ELSE IF ~dec.ok
        THEN /\ Fail(<<Line("Challenge is not valid base64.", 0, <<>>, "")>>)
             /\ UNCHANGED challenge_bytes
        ELSE /\ challenge_bytes' = dec.bytes
             /\ pc' = "ChallengeReceived"
             /\ UNCHANGED <<stderr, rc>>
  /\ UNCHANGED <<cmd, args, history, net, sent, signature_base64, new_keys, stdout>>

\* cmd_create_sign signing the challenge of the caller's previous run when
\* there is one (a challenge kept between runs)
cmd_create_sign_kept_challenge ==
  /\ cmd = "create" /\ pc = "ChallengeReceived"
  /\ LET kept == IF history # <<>> THEN history[Len(history)].challenge_bytes
                 ELSE challenge_bytes
         s == sign_with_private_base64(args.privateKeyBase64, kept)
     IN IF ~s.ok
        THEN /\ Fail(<<Line("Signing failed: ", s.n, <<>>, s.err)>>)
             /\ UNCHANGED <<signature_base64, new_keys, sent, net>>
        ELSE \E seed \in GeneratedSeeds :
               LET kp == generate_keypair_base64(seed)
               IN /\ signature_base64' = s.sig
                  /\ new_keys' = kp
                  /\ Issue(Request("PATCH",
                                   full_url(create_session(args.baseUrl),
                                            UserPath(args.user)),
                                   [has |-> {"Response", "Name", "Parent",
                                             "Privilege", "PublicKey"},
                                    Response |-> s.sig,
                                    Name |-> args.newUsername,
                                    Parent |-> args.user,
                                    Privilege |-> args.privilege,
                                    PublicKey |-> kp.pub]),
                           "ResponseSubmitted")
                  /\ UNCHANGED <<stderr, rc>>
  /\ UNCHANGED <<cmd, args, history, challenge_bytes, stdout>>

\* cmd_create_sign handing out the authority's own key pair as the new one
cmd_create_sign_reuses_authority_key ==
  /\ cmd = "create" /\ pc = "ChallengeReceived"
  /\ LET s == sign_with_private_base64(args.privateKeyBase64, challenge_bytes)
     IN IF ~s.ok
        THEN /\ Fail(<<Line("Signing failed: ", s.n, <<>>, s.err)>>)
             /\ UNCHANGED <<signature_base64, new_keys, sent, net>>
        ELSE \E seed \in GeneratedSeeds :
               LET kp == generate_keypair_base64(
                           SubSeq(b64decode(args.privateKeyBase64).bytes, 1, SeedLen))
               IN /\ signature_base64' = s.sig
                  /\ new_keys' = kp
                  /\ Issue(Request("PATCH",
                                   full_url(create_session(args.baseUrl),
                                            UserPath(args.user)),
                                   [has |-> {"Response", "Name", "Parent",
                                             "Privilege", "PublicKey"},
                                    Response |-> s.sig,
                                    Name |-> args.newUsername,
                                    Parent |-> args.user,
                                    Privilege |-> args.privilege,
                                    PublicKey |-> kp.pub]),
                           "ResponseSubmitted")
                  /\ UNCHANGED <<stderr, rc>>
  /\ UNCHANGED <<cmd, args, history, challenge_bytes, stdout>>

\* cmd_create_sign with Name and Parent taken from each other's argument
cmd_create_sign_swaps_names ==
  /\ cmd = "create" /\ pc = "ChallengeReceived"
  /\ LET s == sign_with_private_base64(args.privateKeyBase64, challenge_bytes)
     IN IF ~s.ok
        THEN /\ Fail(<<Line("Signing failed: ", s.n, <<>>, s.err)>>)
             /\ UNCHANGED <<signature_base64, new_keys, sent, net>>
        ELSE \E seed \in GeneratedSeeds :
               LET kp == generate_keypair_base64(seed)
               IN /\ signature_base64' = s.sig
                  /\ new_keys' = kp
                  /\ Issue(Request("PATCH",
                                   full_url(create_session(args.baseUrl),
                                            UserPath(args.user)),
                                   [has |-> {"Response", "Name", "Parent",
                                             "Privilege", "PublicKey"},
                                    Response |-> s.sig,
                                    Name |-> args.user,
                                    Parent |-> args.newUsername,
                                    Privilege |-> args.privilege,
                                    PublicKey |-> kp.pub]),
                           "ResponseSubmitted")
                  /\ UNCHANGED <<stderr, rc>>
  /\ UNCHANGED <<cmd, args, history, challenge_bytes, stdout>>

\* cmd_create_sign with the two halves of the new key pair taken for each other
cmd_create_sign_sends_private_half ==
  /\ cmd = "create" /\ pc = "ChallengeReceived"
  /\ LET s == sign_with_private_base64(args.privateKeyBase64, challenge_bytes)
     IN IF ~s.ok
        THEN /\ Fail(<<Line("Signing failed: ", s.n, <<>>, s.err)>>)
             /\ UNCHANGED <<signature_base64, new_keys, sent, net>>
        ELSE \E seed \in GeneratedSeeds :
               LET kp == generate_keypair_base64(seed)
               IN /\ signature_base64' = s.sig
                  /\ new_keys' = kp
                  /\ Issue(Request("PATCH",
                                   full_url(create_session(args.baseUrl),
                                            UserPath(args.user)),
                                   [has |-> {"Response", "Name", "Parent",
                                             "Privilege", "PublicKey"},
                                    Response |-> s.sig,
                                    Name |-> args.newUsername,
                                    Parent |-> args.user,
                                    Privilege |-> args.privilege,
                                    PublicKey |-> kp.priv]),
                           "ResponseSubmitted")
                  /\ UNCHANGED <<stderr, rc>>
  /\ UNCHANGED <<cmd, args, history, challenge_bytes, stdout>>

\* cmd_create, signing, the new key pair and sess.request("PATCH")
cmd_create_sign ==
  /\ cmd = "create" /\ pc = "ChallengeReceived"
  /\ LET s == sign_with_private_base64(args.privateKeyBase64, challenge_bytes)
     IN IF ~s.ok
        THEN /\ Fail(<<Line("Signing failed: ", s.n, <<>>, s.err)>>)
             /\ UNCHANGED <<signature_base64, new_keys, sent, net>>
        ELSE \E seed \in GeneratedSeeds :
               LET kp == generate_keypair_base64(seed)
               IN /\ signature_base64' = s.sig
                  /\ new_keys' = kp
                  /\ Issue(Request("PATCH",
                                   full_url(create_session(args.baseUrl),
                                            UserPath(args.user)),
                                   [has |-> {"Response", "Name", "Parent",
                                             "Privilege", "PublicKey"},
                                    Response |-> s.sig,
                                    Name |-> args.newUsername,
                                    Parent |-> args.user,
                                    Privilege |-> args.privilege,
                                    PublicKey |-> kp.pub]),
                           "ResponseSubmitted")
                  /\ UNCHANGED <<stderr, rc>>
  /\ UNCHANGED <<cmd, args, history, challenge_bytes, stdout>>

\* cmd_create_result sending the PATCH once more after a non-success response
cmd_create_result_retries ==
  /\ cmd = "create" /\ pc = "ResponseSubmitted" /\ net.kind \in {"resp", "exc"}
  /\ IF net.kind = "exc"
     THEN /\ Fail(<<Line("Create request failed: ", 0, <<>>, net.e)>>)
          /\ UNCHANGED <<stdout, net, sent>>
     ELSE IF ~ok(net) /\ Len(sent) < 3
     THEN /\ Issue(sent[Len(sent)], "ResponseSubmitted")
          /\ UNCHANGED <<stdout, stderr, rc>>
     ELSE IF ~ok(net)
     THEN /\ Fail(HttpError("Create failed: HTTP", net))
          /\ UNCHANGED <<stdout, net, sent>>
     ELSE /\ stdout' = stdout \o << Line("Success", 0, <<>>, ""),
                                    Line("NewUserPrivateKeyBase64:", 0, <<>>, ""),
                                    Line("", 0, new_keys.priv, ""),
                                    Line("NewUserPublicKeyBase64:", 0, <<>>, ""),
                                    Line("", 0, new_keys.pub, "") >>
          /\ rc' = 0
          /\ pc' = "Done"
          /\ UNCHANGED <<stderr, net, sent>>
  /\ UNCHANGED <<cmd, args, history, locals>>

\* cmd_create_result printing the new keys before r2.ok is looked at
cmd_create_result_prints_keys_first ==
  /\ cmd = "create" /\ pc = "ResponseSubmitted" /\ net.kind \in {"resp", "exc"}
  /\ IF net.kind = "exc"
     THEN /\ Fail(<<Line("Create request failed: ", 0, <<>>, net.e)>>)
          /\ UNCHANGED stdout
     ELSE IF ~ok(net)
     THEN /\ Fail(HttpError("Create failed: HTTP", net))
          /\ stdout' = stdout \o << Line("NewUserPrivateKeyBase64:", 0, <<>>, ""),
                                    Line("", 0, new_keys.priv, ""),
                                    Line("NewUserPublicKeyBase64:", 0, <<>>, ""),
                                    Line("", 0, new_keys.pub, "") >>
     ELSE /\ stdout' = stdout \o << Line("Success", 0, <<>>, ""),
                                    Line("NewUserPrivateKeyBase64:", 0, <<>>, ""),
                                    Line("", 0, new_keys.priv, ""),
                                    Line("NewUserPublicKeyBase64:", 0, <<>>, ""),
                                    Line("", 0, new_keys.pub, "") >>
          /\ rc' = 0
          /\ pc' = "Done"
          /\ UNCHANGED stderr
  /\ UNCHANGED <<cmd, args, history, net, sent, locals>>

\* cmd_create, from the PATCH's outcome on
cmd_create_result ==
  /\ cmd = "create" /\ pc = "ResponseSubmitted" /\ net.kind \in {"resp", "exc"}
  /\ IF net.kind = "exc"
     THEN /\ Fail(<<Line("Create request failed: ", 0, <<>>, net.e)>>)
          /\ UNCHANGED stdout
     ELSE IF ~ok(net)
     THEN /\ Fail(HttpError("Create failed: HTTP", net))
          /\ UNCHANGED stdout
     ELSE /\ stdout' = stdout \o << Line("Success", 0, <<>>, ""),
                                    Line("NewUserPrivateKeyBase64:", 0, <<>>, ""),
                                    Line("", 0, new_keys.priv, ""),
                                    Line("NewUserPublicKeyBase64:", 0, <<>>, ""),
                                    Line("", 0, new_keys.pub, "") >>
          /\ rc' = 0
          /\ pc' = "Done"
          /\ UNCHANGED stderr
  /\ UNCHANGED <<cmd, args, history, net, sent, locals>>

\* The steps of the program.
Client ==
  \/ cmd_open_get
  \/ cmd_open_challenge
  \/ cmd_open_sign
  \/ cmd_open_token
  \/ cmd_destroy_post
  \/ cmd_destroy_result
  \/ cmd_valid_post
  \/ cmd_valid_result
  \/ cmd_create_get
  \/ cmd_create_challenge
  \/ cmd_create_sign
  \/ cmd_create_result

Next == http_exchange \/ Client

Spec == Init /\ [][Next]_vars

(***************************************************************************)
(* The caller runs the same command again after a run has ended: a new     *)
(* process, which starts from the state main() starts from.  The service   *)
(* answers from RetryOutcomes.                                             *)
(***************************************************************************)
MaxAttempts == 2

http_exchange_retry == Exchange(RetryOutcomes)

Restart ==
  /\ pc \in Terminal
  /\ Len(history) < MaxAttempts - 1
  /\ history' = Append(history, [sent |-> sent, challenge_bytes |-> challenge_bytes,
                                 signature_base64 |-> signature_base64])
  /\ pc' = "Idle"
  /\ net' = NoResponse
  /\ sent' = <<>>
  /\ challenge_bytes' = <<>>
  /\ signature_base64' = NoSig
  /\ new_keys' = NoKeys
  /\ stdout' = <<>>
  /\ stderr' = <<>>
  /\ rc' = -1
  /\ UNCHANGED <<cmd, args>>

NextAttempts == http_exchange_retry \/ Client \/ Restart

SpecAttempts == Init /\ [][NextAttempts]_vars

(***************************************************************************)
(* The caller destroys a token and, when that run has ended, destroys the  *)
(* same token again; the service answers each request as it pleases.       *)
(***************************************************************************)
InitDestroy == Init /\ cmd = "destroy"

NextDestroy == http_exchange \/ cmd_destroy_post \/ cmd_destroy_result \/ Restart

SpecDestroy == InitDestroy /\ [][NextDestroy]_vars

(***************************************************************************)
(* Key material.  open and create are run with every kind of private key   *)
(* encoding (both seeds, the 64-byte form with the matching and with other *)
(* trailing bytes, encodings that do not load) against a service that      *)
(* hands out a few challenges; and the new user opens a session with the   *)
(* private key create printed.                                             *)
(***************************************************************************)
OtherSeed == [i \in 1..SeedLen |-> (7 * i + 1) % 256]
KeySeeds == {CallerSeed, OtherSeed}

\* what may follow the seed in a 64-byte key: its public key, or other bytes
Trailers(seed) ==
  { DerivePublic(seed), [i \in 1..SeedLen |-> 0], DerivePublic(DerivePublic(seed)) }

KeyEncodings ==
  { b64encode(seed) : seed \in KeySeeds }
  \cup UNION { { b64encode(seed \o t) : t \in Trailers(seed) } : seed \in KeySeeds }
  \cup { KeyBadPadding, KeyBadLength, KeyWithJunk, <<>>,
         b64encode(CallerSeed \o <<0>>),
         b64encode(CallerSeed \o DerivePublic(CallerSeed) \o <<0>>),
         <<"n", "o", "t", " ", "a", " ", "k", "e", "y">> }

Messages == { <<>>, <<0, 0, 0>>, <<1, 2, 3>>, <<255>> }
KeyOutcomes ==
  { [kind |-> "resp", status |-> 200, text |-> b64encode(m), readable |-> TRUE, e |-> ""] :
      m \in Messages }
  \cup { [kind |-> "resp", status |-> 401, text |-> <<>>, readable |-> TRUE, e |-> ""],
         [kind |-> "exc", status |-> 0, text |-> <<>>, readable |-> TRUE, e |-> "Timeout"] }

ArgsKeys ==
  { [NoArgs EXCEPT !.baseUrl = <<"h">>, !.user = <<"a","l","i","c","e">>,
                   !.privateKeyBase64 = k, !.newUsername = <<"b","o","b">>,
                   !.privilege = 1] : k \in KeyEncodings }

InitKeys ==
  /\ InputsDrawn
  /\ Cardinality(KeyOutcomes) > 0
  /\ cmd \in {"open", "create"}
  /\ args \in ArgsKeys
  /\ pc = "Idle"
  /\ net = NoResponse
  /\ sent = <<>>
  /\ challenge_bytes = <<>>
  /\ signature_base64 = NoSig
  /\ new_keys = NoKeys
  /\ stdout = <<>>
  /\ stderr = <<>>
  /\ rc = -1
  /\ history = <<>>

http_exchange_keys == Exchange(KeyOutcomes)

\* The new user runs open with the private key that create printed.
OpenAsNewUser ==
  /\ cmd = "create" /\ pc = "Done" /\ history = <<>>
  /\ cmd' = "open"
  /\ args' = [args EXCEPT !.user = args.newUsername, !.privateKeyBase64 = stdout[3].text]
  /\ history' = Append(history, [sent |-> sent, challenge_bytes |-> challenge_bytes,
                                 signature_base64 |-> signature_base64])
  /\ pc' = "Idle"
  /\ net' = NoResponse
  /\ sent' = <<>>
  /\ challenge_bytes' = <<>>
  /\ signature_base64' = NoSig
  /\ new_keys' = NoKeys
  /\ stdout' = <<>>
  /\ stderr' = <<>>
  /\ rc' = -1

NextKeys ==
  \/ http_exchange_keys
  \/ cmd_open_get
  \/ cmd_open_challenge
  \/ cmd_open_sign
  \/ cmd_open_token
  \/ cmd_create_get
  \/ cmd_create_challenge
  \/ cmd_create_sign
  \/ cmd_create_result
  \/ OpenAsNewUser

SpecKeys == InitKeys /\ [][NextKeys]_vars

(***************************************************************************)
(* A service that repeats what it was sent: the body of its answer to the  *)
(* proof request is the Response field it received.                        *)
(***************************************************************************)
\* sk.sign(data).signature: 64 bytes, a deterministic function of seed and data
SignatureBytes(sig) ==
  [i \in 1..RawPrivLen |->
     (sig.seed[((i - 1) % SeedLen) + 1] * 11 + Len(sig.msg) * 13
        + (IF sig.msg # <<>> THEN sig.msg[1] ELSE 0) + i) % 256]

\* base64.b64encode(sig).decode('ascii'), the text that travels as Response
SignatureText(sig) == b64encode(SignatureBytes(sig))

http_exchange_echo ==
  /\ net.kind = "pending"
  /\ sent # <<>> /\ "Response" \in sent[Len(sent)].json.has
  /\ \E st \in Statuses :
       net' = [kind |-> "resp", status |-> st,
               text |-> SignatureText(sent[Len(sent)].json.Response),
               readable |-> TRUE, e |-> ""]
  /\ UNCHANGED <<cmd, args, history, pc, sent, locals, stdout, stderr, rc>>

NextEcho == http_exchange \/ http_exchange_echo \/ Client

SpecEcho == Init /\ [][NextEcho]_vars

(***************************************************************************)
(* Two flows at once: two runs of the program whose steps interleave.  One *)
(* flow is the running one, held in the variables; the other is suspended, *)
(* its state kept aside in history until the scheduler switches to it.     *)
(***************************************************************************)
\* the state of a flow
Context(c, a, p, n, s, cb, sig, nk, out, err, r) ==
  [cmd |-> c, args |-> a, pc |-> p, net |-> n, sent |-> s, challenge_bytes |-> cb,
   signature_base64 |-> sig, new_keys |-> nk, stdout |-> out, stderr |-> err, rc |-> r]

Running ==
  Context(cmd, args, pc, net, sent, challenge_bytes, signature_base64, new_keys,
          stdout, stderr, rc)

\* a flow that has not started
InitialContext(c, a) ==
  Context(c, a, "Idle", NoResponse, <<>>, <<>>, NoSig, NoKeys, <<>>, <<>>, -1)

ConcurrentArgs(c) ==
  { a \in ArgsOf(c) :
      /\ a.baseUrl = <<"h">>
      /\ a.user \in {<<>>, <<"a","l","i","c","e">>}
      /\ a.token \in {<<>>, <<"t","o","k","-","1","2","3">>}
      /\ a.privateKeyBase64 \in {<<>>, Key32, KeyBadLength}
      /\ a.privilege = 0 }

ConcurrentOutcomes ==
  { [kind |-> "resp", status |-> 200, text |-> <<DQ, "A", "A", "A", "A", DQ>>,
     readable |-> TRUE, e |-> ""],
    [kind |-> "resp", status |-> 200, text |-> <<"A", "A", "A">>,
     readable |-> TRUE, e |-> ""],
    [kind |-> "resp", status |-> 401, text |-> <<"!">>, readable |-> TRUE, e |-> ""],
    [kind |-> "exc", status |-> 0, text |-> <<>>, readable |-> TRUE, e |-> "Timeout"] }

InitConcurrent ==
  /\ InputsDrawn
  /\ Cardinality(ConcurrentOutcomes) > 0
  /\ cmd \in Commands
  /\ args \in ConcurrentArgs(cmd)
  /\ pc = "Idle"
  /\ net = NoResponse
  /\ sent = <<>>
  /\ challenge_bytes = <<>>
  /\ signature_base64 = NoSig
  /\ new_keys = NoKeys
  /\ stdout = <<>>
  /\ stderr = <<>>
  /\ rc = -1
  /\ \E c \in Commands : \E a \in ConcurrentArgs(c) : history = <<InitialContext(c, a)>>

http_exchange_concurrent == Exchange(ConcurrentOutcomes)

\* Switch with the response slot shared by the two flows
SwitchSharedResponse ==
  /\ cmd' = history[1].cmd
  /\ args' = history[1].args
  /\ pc' = history[1].pc
  /\ net' = net
  /\ sent' = history[1].sent
  /\ challenge_bytes' = history[1].challenge_bytes
  /\ signature_base64' = history[1].signature_base64
  /\ new_keys' = history[1].new_keys
  /\ stdout' = history[1].stdout
  /\ stderr' = history[1].stderr
  /\ rc' = history[1].rc
  /\ history' = <<Running>>

\* The scheduler suspends the running flow and resumes the other one.
Switch ==
  /\ cmd' = history[1].cmd
  /\ args' = history[1].args
  /\ pc' = history[1].pc
  /\ net' = history[1].net
  /\ sent' = history[1].sent
  /\ challenge_bytes' = history[1].challenge_bytes
  /\ signature_base64' = history[1].signature_base64
  /\ new_keys' = history[1].new_keys
  /\ stdout' = history[1].stdout
  /\ stderr' = history[1].stderr
  /\ rc' = history[1].rc
  /\ history' = <<Running>>

NextConcurrent == http_exchange_concurrent \/ Client \/ Switch

SpecConcurrent == InitConcurrent /\ [][NextConcurrent]_vars

(***************************************************************************)
(* The service's side of provisioning.  The service binds the PublicKey of *)
(* a PATCH it accepts to the new account and answers with success; it      *)
(* answers a PATCH it rejects with a non-success status and binds nothing. *)
(* The transport may fail, or the client's timeout may expire, before the  *)
(* request reached the service or after the service acted on it.  What a   *)
(* request ended in carries, as applied, whether the service bound a key.  *)
(***************************************************************************)
ServiceOutcome(o, applied) ==
  [kind |-> o.kind, status |-> o.status, text |-> o.text, readable |-> o.readable,
   e |-> o.e, applied |-> applied]

service_exchange ==
  /\ net.kind = "pending"
  /\ \E o \in ConcurrentOutcomes : \E applied \in BOOLEAN :
       /\ applied => sent[Len(sent)].method = "PATCH"
       /\ (sent[Len(sent)].method = "PATCH" /\ o.kind = "resp") => (applied <=> ok(o))
       /\ net' = ServiceOutcome(o, applied)
  /\ UNCHANGED <<cmd, args, history, pc, sent, locals, stdout, stderr, rc>>

NextService == service_exchange \/ Client

InitService == Init /\ Cardinality(ConcurrentOutcomes) > 0

SpecService == InitService /\ [][NextService]_vars

(***************************************************************************)
(* main().  The command line may also be empty, may be one argparse        *)
(* rejects (a word that is not a command, a missing argument), may parse   *)
(* without a command, or may carry a user or token that quote() cannot     *)
(* encode (a lone surrogate), which raises before the first request.       *)
(***************************************************************************)
\* a character str.encode('utf-8') refuses
LoneSurrogate == "U+D800"

\* args.cmd for an empty argv, a word argparse rejects, and a parse without command
NotCommands == {"", "bogus", "None"}

Encodable(a) ==
  \A t \in {a.user, a.token} : \A i \in 1..Len(t) : t[i] # LoneSurrogate

MainArgs(c) ==
  IF c \in NotCommands THEN {NoArgs}
  ELSE LET given == { a \in ArgsOf(c) :
                        /\ a.baseUrl = <<"h">>
                        /\ a.user \in {<<>>, <<"a","l","i","c","e">>}
                        /\ a.token \in {<<>>, <<"t","o","k","-","1","2","3">>}
                        /\ a.privateKeyBase64 \in {<<>>, Key32, KeyBadLength, KeyWithJunk}
                        /\ a.privilege = 0 }
       IN given
          \cup { [a EXCEPT !.user = IF c \in {"open", "create"}
                                    THEN <<LoneSurrogate>> ELSE <<>>,
                           !.token = IF c \in {"valid", "destroy"}
                                     THEN <<LoneSurrogate>> ELSE <<>>] : a \in given }

InitMain ==
  /\ InputsDrawn
  /\ cmd \in Commands \cup NotCommands
  /\ args \in MainArgs(cmd)
  /\ pc = "Idle"
  /\ net = NoResponse
  /\ sent = <<>>
  /\ challenge_bytes = <<>>
  /\ signature_base64 = NoSig
  /\ new_keys = NoKeys
  /\ stdout = <<>>
  /\ stderr = <<>>
  /\ rc = -1
  /\ history = <<>>

\* if not argv: parser.print_help(); return 1
main_no_arguments ==
  /\ cmd = "" /\ pc = "Idle"
  /\ stdout' = Append(stdout, Line("usage: AbyssCli", 0, <<>>, ""))
  /\ rc' = 1
  /\ pc' = "Failed"
  /\ UNCHANGED <<cmd, args, history, net, sent, locals, stderr>>

\* parser.parse_args(argv) rejects the command line: parser.error() prints the
\* usage and the error to sys.stderr and exits with status 2
main_parse_error ==
  /\ cmd = "bogus" /\ pc = "Idle"
  /\ stderr' = stderr \o <<Line("usage: AbyssCli", 0, <<>>, ""),
                           Line("AbyssCli: error: ", 0, <<>>, "invalid choice")>>
  /\ rc' = 2
  /\ pc' = "Failed"
  /\ UNCHANGED <<cmd, args, history, net, sent, locals, stdout>>

\* the else branch of main's dispatch
main_unknown_command ==
  /\ cmd = "None" /\ pc = "Idle"
  /\ stderr' = Append(stderr, Line("Unknown command.", 0, <<>>, ""))
  /\ stdout' = Append(stdout, Line("usage: AbyssCli", 0, <<>>, ""))
  /\ rc' = 2
  /\ pc' = "Failed"
  /\ UNCHANGED <<cmd, args, history, net, sent, locals>>

\* except Exception as ex in main: quote() raised UnicodeEncodeError inside
\* cmd_*, outside every try of the command
main_unexpected_exception ==
  /\ cmd \in Commands /\ pc = "Idle" /\ ~Encodable(args)
  /\ stderr' = Append(stderr, Line("Error: ", 0, <<>>, "UnicodeEncodeError"))
  /\ rc' = 3
  /\ pc' = "Failed"
  /\ UNCHANGED <<cmd, args, history, net, sent, locals, stdout>>

NextMain ==
  \/ http_exchange_retry
  \/ (Encodable(args) /\ Client)
  \/ main_no_arguments
  \/ main_parse_error
  \/ main_unknown_command
  \/ main_unexpected_exception

SpecMain == InitMain /\ [][NextMain]_vars

(***************************************************************************)
(* Termination.  Every request is made with timeout=15, so a request in    *)
(* flight ends in a response or in an exception; the process runs its next *)
(* statement when it can.                                                  *)
(***************************************************************************)
NextLive == http_exchange_retry \/ Client

InitLive ==
  /\ Init
  /\ args.baseUrl = <<"h">>
  /\ args.privilege = 0

SpecLive ==
  /\ InitLive
  /\ [][NextLive]_vars
  /\ WF_vars(http_exchange_retry)
  /\ WF_vars(Client)

(***************************************************************************)
(* The session token, from the service and back.  The service issues a     *)
(* token in answer to the proof POST, as a raw string or as a JSON string; *)
(* it percent-decodes the token parameter of a validate or destroy request *)
(* and accepts the token when it is one it issued.  The caller passes the  *)
(* token open printed to valid or destroy.                                 *)
(***************************************************************************)
IssuedTokens ==
  { <<"t","o","k","-","1","2","3">>, <<"A","=","!">>, <<"n","u","l","l">> }

HexDigits == <<"0","1","2","3","4","5","6","7","8","9","A","B","C","D","E","F">>
\* percent-decoding: every %XY becomes the character of code XY (the
\* characters of the codes 32..63 that the model's texts use)
RECURSIVE unquote(_)
unquote(s) ==
  LET IsHex(h) == \E k \in 1..16 : HexDigits[k] = h
      HexValue(h) == (CHOOSE k \in 1..16 : HexDigits[k] = h) - 1
      Ascii == [k \in 32..63 |->
                  CASE k = 32 -> " " [] k = 33 -> "!" [] k = 34 -> DQ [] k = 37 -> "%"
                    [] k = 38 -> "&" [] k = 43 -> "+" [] k = 45 -> "-" [] k = 46 -> "."
                    [] k = 47 -> "/" [] k = 61 -> "=" [] k = 63 -> "?"
                    [] k \in 48..57 -> HexDigits[k - 47]
                    [] OTHER -> ""]
  IN IF s = <<>> THEN <<>>
     ELSE IF /\ s[1] = "%" /\ Len(s) >= 3 /\ IsHex(s[2]) /\ IsHex(s[3])
             /\ 16 * HexValue(s[2]) + HexValue(s[3]) \in DOMAIN Ascii
     THEN <<Ascii[16 * HexValue(s[2]) + HexValue(s[3])]>> \o unquote(SubSeq(s, 4, Len(s)))
     ELSE <<s[1]>> \o unquote(Tail(s))

\* the value of the token parameter of a validate or destroy URL, still encoded
TokenParameter(url) ==
  LET eq == CHOOSE i \in 1..Len(url) : url[i] = "=" /\ \A j \in 1..(i - 1) : url[j] # "="
  IN SubSeq(url, eq + 1, Len(url))

TokenOutcome(status, text, issued, received) ==
  [kind |-> "resp", status |-> status, text |-> text, readable |-> TRUE, e |-> "",
   issued |-> issued, received |-> received]

\* the request in flight fails in the transport, or the service refuses it
TokenFailures ==
  { [kind |-> "exc", status |-> 0, text |-> <<>>, readable |-> TRUE, e |-> "Timeout",
     issued |-> <<>>, received |-> <<>>],
    TokenOutcome(403, <<"!">>, <<>>, <<>>) }

token_service_exchange ==
  /\ net.kind = "pending"
  /\ LET req == sent[Len(sent)]
     IN \/ net' \in TokenFailures
        \/ IF req.method = "GET"
           THEN net' = TokenOutcome(200, <<DQ, "A", "A", "A", "A", DQ>>, <<>>, <<>>)
           ELSE IF cmd = "open"
           THEN \E t \in IssuedTokens : \E body \in {t, <<DQ>> \o t \o <<DQ>>} :
                  net' = TokenOutcome(200, body, t, <<>>)
           ELSE LET received == unquote(TokenParameter(req.url))
                IN net' = TokenOutcome(IF received \in IssuedTokens THEN 200 ELSE 401,
                                       <<DQ, "a", "l", "i", "c", "e", DQ>>, <<>>, received)
  /\ UNCHANGED <<cmd, args, history, pc, sent, locals, stdout, stderr, rc>>

InitToken ==
  /\ Init
  /\ Cardinality(IssuedTokens) > 0
  /\ Cardinality(TokenFailures) > 0
  /\ cmd \in {"open", "valid", "destroy"}
  /\ cmd = "open" => args.privateKeyBase64 = Key32

\* The caller runs valid or destroy with the token open printed.
ReplayToken ==
  /\ cmd = "open" /\ pc = "Authenticated" /\ history = <<>>
  /\ cmd' \in {"valid", "destroy"}
  /\ args' = [NoArgs EXCEPT !.baseUrl = args.baseUrl, !.token = stdout[1].text]
  /\ history' = <<[issued |-> net.issued]>>
  /\ pc' = "Idle"
  /\ net' = NoResponse
  /\ sent' = <<>>
  /\ challenge_bytes' = <<>>
  /\ signature_base64' = NoSig
  /\ new_keys' = NoKeys
  /\ stdout' = <<>>
  /\ stderr' = <<>>
  /\ rc' = -1

NextToken ==
  \/ token_service_exchange
  \/ cmd_open_get
  \/ cmd_open_challenge
  \/ cmd_open_sign
  \/ cmd_open_token
  \/ cmd_valid_post
  \/ cmd_valid_result
  \/ cmd_destroy_post
  \/ cmd_destroy_result
  \/ ReplayToken

SpecToken == InitToken /\ [][NextToken]_vars

(***************************************************************************)
(* Request addresses.  The commands are run with the same base address     *)
(* written with no, one, two and three trailing slashes.                   *)
(***************************************************************************)
MaxSlashes == 3

RECURSIVE Slashes(_)
Slashes(n) == IF n = 0 THEN <<>> ELSE <<"/">> \o Slashes(n - 1)

UrlArgs(c) ==
  { [a EXCEPT !.baseUrl = b] :
      a \in { x \in ArgsOf(c) : x.baseUrl = <<"h">> /\ x.privateKeyBase64 \in {<<>>, Key32}
                                 /\ x.privilege = 0 },
      b \in { <<"h">> \o Slashes(n) : n \in 0..MaxSlashes } }

InitUrl ==
  /\ InputsDrawn
  /\ cmd \in Commands
  /\ args \in UrlArgs(cmd)
  /\ pc = "Idle"
  /\ net = NoResponse
  /\ sent = <<>>
  /\ challenge_bytes = <<>>
  /\ signature_base64 = NoSig
  /\ new_keys = NoKeys
  /\ stdout = <<>>
  /\ stderr = <<>>
  /\ rc = -1
  /\ history = <<>>

SpecUrl == InitUrl /\ [][NextLive]_vars

(***************************************************************************)
(* update-video.py: update_summary(base_path, name_input, author_input,    *)
(* group_input).  The project directory is what earlier runs left on disk: *)
(* history holds the directory before the call and, after it, the          *)
(* directory the call left.  args holds the three optional inputs.         *)
(***************************************************************************)
\* Python's None
None == "None"

\* code points of the characters of the file names
CodePoint(c) ==
  CASE c = "." -> 46 [] c = "0" -> 48 [] c = "1" -> 49 [] c = "2" -> 50
    [] c = "A" -> 65 [] c = "a" -> 97 [] c = "g" -> 103 [] c = "j" -> 106
    [] c = "n" -> 110 [] c = "p" -> 112

\* str.__lt__ / __eq__: a <= b
RECURSIVE StrLeq(_, _)
StrLeq(a, b) ==
  IF a = <<>> THEN TRUE
  ELSE IF b = <<>> THEN FALSE
  ELSE IF a[1] # b[1] THEN CodePoint(a[1]) < CodePoint(b[1])
  ELSE StrLeq(Tail(a), Tail(b))

\* gallery_files.sort()
RECURSIVE sorted(_)
sorted(names) ==
  IF names = {} THEN <<>>
  ELSE LET first == CHOOSE x \in names : \A y \in names : StrLeq(x, y)
       IN <<first>> \o sorted(names \ {first})

Jpg(n) == n \o <<".", "j", "p", "g">>

\* the keys of default_summary
KnownKeys == {"name", "duration", "gallery", "comment", "star", "like", "author"}

\* the values an earlier run, or the user's editor, left in summary.json
StoredValue(key) ==
  CASE key = "name" -> "stored name"
    [] key = "duration" -> 111
    [] key = "gallery" -> <<Jpg(<<"2">>)>>
    [] key = "comment" -> <<"stored comment">>
    [] key = "star" -> TRUE
    [] key = "like" -> 5
    [] key = "author" -> "stored author"
    [] key = "group" -> "stored group"
    [] OTHER -> <<"stored tag">>

\* summary.json: absent, not JSON, or a JSON object
NoSummary == [exists |-> FALSE, valid |-> FALSE, data |-> [k \in {} |-> 0]]
SummaryFiles ==
  { NoSummary, [NoSummary EXCEPT !.exists = TRUE] }
  \cup { [exists |-> TRUE, valid |-> TRUE, data |-> [k \in ks |-> StoredValue(k)]] :
           ks \in { d \cup e : d \in SUBSET {"name", "author", "group", "tags"},
                                e \in {{}, {"comment", "star", "like", "duration",
                                            "gallery"}} } }

\* the project directory: summary.json, the video file and what ffprobe says
\* of it, and gallery/ with its files
VideoMs == 2500
Directories ==
  { [summary |-> f, video |-> v, hasGallery |-> g, gallery |-> files] :
      f \in SummaryFiles, v \in BOOLEAN, g \in BOOLEAN,
      files \in {{}, { Jpg(<<"0">>), Jpg(<<"1", "0">>), Jpg(<<"2">>) }} }

SummaryInputs ==
  [name_input : {None, "given name"}, author_input : {None, "given author"},
   group_input : {None, "given group"}]

InitSummary ==
  /\ InputsDrawn
  /\ Cardinality(Directories) > 0
  /\ cmd = "update_summary"
  /\ args \in SummaryInputs
  /\ \E d \in Directories : (~d.hasGallery => d.gallery = {}) /\ history = <<d>>
  /\ pc = "Idle"
  /\ net = NoResponse
  /\ sent = <<>>
  /\ challenge_bytes = <<>>
  /\ signature_base64 = NoSig
  /\ new_keys = NoKeys
  /\ stdout = <<>>
  /\ stderr = <<>>
  /\ rc = -1

\* default_summary as built on lines 148-156
default_summary(a) ==
  [k \in KnownKeys |->
     CASE k = "name" -> IF a.name_input # None THEN a.name_input ELSE "null"
       [] k = "duration" -> 0
       [] k = "gallery" -> <<>>
       [] k = "comment" -> <<>>
       [] k = "star" -> FALSE
       [] k = "like" -> 0
       [] k = "author" -> IF a.author_input # None THEN a.author_input ELSE "anonymous"]

\* written_summary with name_input and author_input taking precedence over
\* the stored name and author
written_summary_inputs_first(dir, a, ms) ==
  LET existing_data == IF dir.summary.exists /\ dir.summary.valid
                       THEN dir.summary.data ELSE [k \in {} |-> 0]
      hasGroup == a.group_input # None \/ "group" \in DOMAIN existing_data
      keys == KnownKeys \cup (IF hasGroup THEN {"group"} ELSE {})
      merged(k) == IF k = "name" /\ a.name_input # None THEN a.name_input
                   ELSE IF k = "author" /\ a.author_input # None THEN a.author_input
                   ELSE IF k \in DOMAIN existing_data THEN existing_data[k]
                   ELSE default_summary(a)[k]
  IN [k \in keys |->
        CASE k = "group" -> IF a.group_input # None THEN a.group_input
                            ELSE existing_data["group"]
          [] k = "duration" -> IF dir.video THEN ms ELSE merged(k)
          [] k = "gallery" -> IF dir.hasGallery THEN sorted(dir.gallery) ELSE merged(k)
          [] OTHER -> merged(k)]

\* the summary update_summary writes, ms being get_video_duration's result
written_summary(dir, a, ms) ==
  LET existing_data == IF dir.summary.exists /\ dir.summary.valid
                       THEN dir.summary.data ELSE [k \in {} |-> 0]
      hasGroup == a.group_input # None \/ "group" \in DOMAIN existing_data
      keys == KnownKeys \cup (IF hasGroup THEN {"group"} ELSE {})
      merged(k) == IF k \in DOMAIN existing_data THEN existing_data[k]
                   ELSE default_summary(a)[k]
  IN [k \in keys |->
        CASE k = "group" -> IF a.group_input # None THEN a.group_input
                            ELSE existing_data["group"]
          [] k = "duration" -> IF dir.video THEN ms ELSE merged(k)
          [] k = "gallery" -> IF dir.hasGallery THEN sorted(dir.gallery) ELSE merged(k)
          [] OTHER -> merged(k)]

\* update_summary: reads summary.json, merges, probes the video (ffprobe
\* gives the duration, or fails and 0 is taken), lists gallery/, writes
update_summary ==
  /\ cmd = "update_summary" /\ pc = "Idle"
  /\ \E ms \in {VideoMs, 0} :
       LET dir == history[1]
           w == written_summary(dir, args, ms)
       IN history' = Append(history,
                            [dir EXCEPT !.summary = [exists |-> TRUE, valid |-> TRUE,
                                                     data |-> w]])
  /\ LET dir == history[1]
         warning(cond, msg) == IF cond THEN <<Line(msg, 0, <<>>, "")>> ELSE <<>>
     IN stdout' = stdout
          \o warning(~dir.video, "Warning: no video file found in")
          \o warning(dir.summary.exists /\ ~dir.summary.valid,
                     "Warning: Invalid JSON in summary.json, using defaults")
          \o warning(~dir.video,
                     "Warning: video file for duration not found; duration set to 0")
          \o warning(~dir.hasGallery, "Warning: gallery directory not found at")
          \o <<Line("Summary updated successfully at", 0, <<>>, "")>>
  /\ pc' = "Done"
  /\ rc' = 0
  /\ UNCHANGED <<cmd, args, net, sent, locals, stderr>>

\* The user runs the update again on the directory the call left.
update_again ==
  /\ cmd = "update_summary" /\ pc = "Done" /\ Len(history) = 2
  /\ history' = <<history[2]>>
  /\ args' \in SummaryInputs
  /\ pc' = "Idle"
  /\ stdout' = <<>>
  /\ rc' = -1
  /\ UNCHANGED <<cmd, net, sent, locals, stderr>>

NextSummary == update_summary \/ update_again

SpecSummary == InitSummary /\ [][NextSummary]_vars

(***************************************************************************)
(* image-creator.py: the page-renaming step of main().  args holds what    *)
(* os.listdir returned; history holds the directory as it is now, a        *)
(* function from file name to the page (named by its original file name)   *)
(* stored under it; sent holds new_filenames.                              *)
(***************************************************************************)
MaxPages == 3

PageNames ==
  { Jpg(<<"0">>), Jpg(<<"1">>), Jpg(<<"2">>), Jpg(<<"0", "1">>), Jpg(<<"1", "0">>),
    Jpg(<<"a">>), Jpg(<<"A">>), Jpg(<<"a", "1">>), Jpg(<<"a", "2">>), Jpg(<<"1", "a">>),
    <<"1", ".", "p", "n", "g">> }

\* int(text) of a run of digits
RECURSIVE int(_)
int(t) ==
  IF t = <<>> THEN 0
  ELSE 10 * int(SubSeq(t, 1, Len(t) - 1))
       + (CHOOSE k \in 0..9 : HexDigits[k + 1] = t[Len(t)])

\* the length of the longest prefix of t made of digits (d) or of others (~d)
RECURSIVE RunLength(_, _)
RunLength(t, d) ==
  IF t = <<>> \/ (t[1] \in Digits) # d THEN 0 ELSE 1 + RunLength(Tail(t), d)

\* natural_sort_key(s): re.split('([0-9]+)', s) gives text, digits, text, ...;
\* the digit runs become integers, the texts lower case
RECURSIVE natural_sort_key(_)
natural_sort_key(s) ==
  LET lower(t) == [i \in 1..Len(t) |-> IF t[i] = "A" THEN "a" ELSE t[i]]
      n == RunLength(s, FALSE)
      rest == SubSeq(s, n + 1, Len(s))
      m == RunLength(rest, TRUE)
  IN IF rest = <<>> THEN << lower(s) >>
     ELSE << lower(SubSeq(s, 1, n)), int(SubSeq(rest, 1, m)) >>
          \o natural_sort_key(SubSeq(rest, m + 1, Len(rest)))

\* list.__lt__ on two keys from place i on: texts at the odd places, integers
\* at the even ones
RECURSIVE KeyLess(_, _, _)
KeyLess(a, b, i) ==
  IF i > Len(b) THEN FALSE
  ELSE IF i > Len(a) THEN TRUE
  ELSE IF a[i] = b[i] THEN KeyLess(a, b, i + 1)
  ELSE IF i % 2 = 1 THEN StrLeq(a[i], b[i])
  ELSE a[i] < b[i]

\* sorted(files, key=natural_sort_key): stable, so files with equal keys stay
\* in the order os.listdir gave them
RECURSIVE sorted_natural(_)
sorted_natural(files) ==
  IF files = <<>> THEN <<>>
  ELSE LET done == sorted_natural(SubSeq(files, 1, Len(files) - 1))
           x == files[Len(files)]
           k == Cardinality({ j \in 1..Len(done) :
                                ~KeyLess(natural_sort_key(x), natural_sort_key(done[j]), 1) })
       IN SubSeq(done, 1, k) \o <<x>> \o SubSeq(done, k + 1, Len(done))

\* str(n)
RECURSIVE str(_)
str(n) == IF n < 10 THEN <<HexDigits[n + 1]>> ELSE str(n \div 10) \o <<HexDigits[(n % 10) + 1]>>

\* f"{i:0{num_digits}d}"
RECURSIVE ZeroPadded(_, _)
ZeroPadded(t, num_digits) ==
  IF Len(t) >= num_digits THEN t ELSE ZeroPadded(<<"0">> \o t, num_digits)

\* os.path.splitext(name)[1]
splitext(name) ==
  LET dots == { i \in 2..Len(name) : name[i] = "." }
  IN IF dots = {} THEN <<>>
     ELSE SubSeq(name, CHOOSE i \in dots : \A j \in dots : j <= i, Len(name))

\* what os.listdir may return: the image files of the directory, in any order
\* (files that are not images are left alone by the step and are left out)
Listings ==
  { l \in SeqsUpTo(PageNames, MaxPages) : \A i, j \in 1..Len(l) : i # j => l[i] # l[j] }

image_files == sorted_natural(args.listdir)

InitRename ==
  /\ InputsDrawn
  /\ Cardinality(Listings) > 0
  /\ cmd = "image-creator"
  /\ \E l \in Listings :
       /\ args = [listdir |-> l]
       /\ history = << [n \in { l[i] : i \in 1..Len(l) } |-> n] >>
  /\ pc = "Idle"
  /\ net = NoResponse
  /\ sent = <<>>
  /\ challenge_bytes = <<>>
  /\ signature_base64 = NoSig
  /\ new_keys = NoKeys
  /\ stdout = <<>>
  /\ stderr = <<>>
  /\ rc = -1

\* main, step 4 up to the loop: os.listdir, filter, sorted
image_scan ==
  /\ cmd = "image-creator" /\ pc = "Idle"
  /\ IF image_files = <<>>
     THEN /\ stdout' = Append(stdout, Line("Error: No supported image files found in the directory.",
                                           0, <<>>, ""))
          /\ rc' = 1
          /\ pc' = "Failed"
     ELSE /\ stdout' = Append(stdout, Line("Renaming files...", 0, <<>>, ""))
          /\ pc' = "Renaming"
          /\ UNCHANGED rc
  /\ UNCHANGED <<cmd, args, history, net, sent, locals, stderr>>

\* one turn of the renaming loop.  os.rename(old, new) moves the file; a file
\* already stored under the new name is replaced.  os.rename to a name that is taken replaces
\* the file there (POSIX) or raises FileExistsError (Windows), which ends the
\* run through the except OSError branch.
rename_page ==
  /\ cmd = "image-creator" /\ pc = "Renaming" /\ Len(sent) < Len(image_files)
  /\ LET i == Len(sent) + 1
         old_filename == image_files[i]
         new == ZeroPadded(str(i), Len(str(Len(image_files)))) \o splitext(old_filename)
         disk == history[1]
         os_rename(old) ==
           [n \in (DOMAIN disk \ {old}) \cup {new} |-> IF n = new THEN disk[old] ELSE disk[n]]
     IN \/ /\ old_filename = new
           /\ stdout' = Append(stdout, Line("is already correctly named. Skipping.",
                                            0, old_filename, ""))
           /\ sent' = Append(sent, new)
           /\ UNCHANGED <<history, pc, rc>>
        \/ /\ old_filename # new
           /\ history' = <<os_rename(old_filename)>>
           /\ stdout' = Append(stdout, Line("->", 0, old_filename \o new, ""))
           /\ sent' = Append(sent, new)
           /\ UNCHANGED <<pc, rc>>
        \/ /\ old_filename # new /\ new \in DOMAIN disk
           /\ stdout' = Append(stdout, Line("An error occurred during file operations: ",
                                            0, <<>>, "FileExistsError"))
           /\ rc' = 1
           /\ pc' = "Failed"
           /\ UNCHANGED <<history, sent>>
  /\ UNCHANGED <<cmd, args, net, locals, stderr>>

\* the loop has ended: the bookmark window and summary.json, whose list is
\* new_filenames
image_finish ==
  /\ cmd = "image-creator" /\ pc = "Renaming" /\ Len(sent) = Len(image_files)
  /\ stdout' = Append(stdout, Line("File operations complete.", 0, <<>>, ""))
  /\ rc' = 0
  /\ pc' = "Done"
  /\ UNCHANGED <<cmd, args, history, net, sent, locals, stderr>>

NextRename == image_scan \/ rename_page \/ image_finish

SpecRename == InitRename /\ [][NextRename]_vars

(***************************************************************************)
(* update-video.py -m: merge_projects.  args holds the source directory    *)
(* (src: name -> "project", a directory with a video or a summary.json;    *)
(* "dir", any other directory; "file"), whether it is a directory at all,  *)
(* and the destination as it was at the start; history[1] is the           *)
(* destination directory on disk (name -> "dir" or "file"); sent holds one *)
(* record per child the loop has handled; stdout the prints.  What a       *)
(* project holds beyond being a project is not represented, so of          *)
(* update_summary only the closing print appears.                          *)
(***************************************************************************)
\* find_next_directory(base_path): item.is_dir() and item.name.isdigit(),
\* int(item.name), then the first next_num from 1 that is not in the set
find_next_directory(base_path) ==
  LET isdigit(t) == t # <<>> /\ \A i \in 1..Len(t) : t[i] \in Digits
      existing_dirs == { int(item) : item \in { n \in DOMAIN base_path :
                                                  base_path[n] = "dir" /\ isdigit(n) } }
      next_num == CHOOSE k \in 1..(Cardinality(existing_dirs) + 1) :
                    k \notin existing_dirs /\ \A j \in 1..(k - 1) : j \in existing_dirs
  IN str(next_num)

InitMerge ==
  /\ InputsDrawn
  /\ cmd = "merge"
  /\ LET SrcNames == { <<"1">>, <<"1", "0">>, <<"2">> }
         DstNames == { <<"1">>, <<"0", "1">>, <<"2">>, <<"a">> }
         SrcDirs == UNION { [D -> {"project", "dir", "file"}] : D \in SUBSET SrcNames }
         DstDirs == UNION { [D -> {"dir", "file"}] : D \in SUBSET DstNames }
     IN /\ Cardinality(SrcDirs) > 0 /\ Cardinality(DstDirs) > 0
        /\ \E s \in SrcDirs, d \in DstDirs, b \in BOOLEAN :
             /\ ~b => s = <<>>
             /\ args = [src |-> s, isdir |-> b, dst |-> d]
             /\ history = <<d>>
  /\ pc = "Idle"
  /\ net = NoResponse
  /\ sent = <<>>
  /\ challenge_bytes = <<>>
  /\ signature_base64 = NoSig
  /\ new_keys = NoKeys
  /\ stdout = <<>>
  /\ stderr = <<>>
  /\ rc = -1

\* merge_projects: the source is missing or is not a directory
merge_no_source ==
  /\ cmd = "merge" /\ pc = "Idle" /\ ~args.isdir
  /\ stdout' = Append(stdout, Line("Error: Source path not found or is not a directory: ",
                                   0, <<>>, ""))
  /\ rc' = 0
  /\ pc' = "Done"
  /\ UNCHANGED <<cmd, args, history, net, sent, locals, stderr>>

\* one turn of the loop over sorted(src.iterdir(), key=lambda p: p.name).
\* shutil.copytree lists the child, then creates dst_project with
\* os.makedirs (FileExistsError when the name is taken by any entry), then
\* copies; every exception of the try block is caught and printed.
merge_child ==
  /\ cmd = "merge" /\ pc \in {"Idle", "Merging"} /\ args.isdir
  /\ Len(sent) < Cardinality(DOMAIN args.src)
  /\ LET child == sorted(DOMAIN args.src)[Len(sent) + 1]
         dst == history[1]
         new_dir_name == find_next_directory(dst)
         existed == new_dir_name \in DOMAIN dst
         created == [n \in DOMAIN dst \cup {new_dir_name} |->
                       IF n = new_dir_name THEN "dir" ELSE dst[n]]
         turn(outcome, name) == [child |-> child, outcome |-> outcome,
                                 new_dir_name |-> name, existed |-> existed]
         copied == Line("Copied project", 0, child \o new_dir_name, "")
     IN \/ /\ args.src[child] = "file"
           /\ sent' = Append(sent, turn("continue", <<>>))
           /\ UNCHANGED <<history, stdout>>
        \/ /\ args.src[child] = "dir"
           /\ stdout' = Append(stdout,
                  Line("Skipping: not a project (no video or summary.json).", 0, child, ""))
           /\ sent' = Append(sent, turn("skipped", <<>>))
           /\ UNCHANGED history
        \/ /\ args.src[child] = "project" /\ existed
           /\ stdout' = Append(stdout, Line("Failed to copy", 0, child, "FileExistsError"))
           /\ sent' = Append(sent, turn("failed", new_dir_name))
           /\ UNCHANGED history
        \/ /\ args.src[child] = "project" /\ ~existed
           /\ history' = <<created>>
           /\ stdout' = stdout \o <<copied, Line("Summary updated successfully at", 0, <<>>, "")>>
           /\ sent' = Append(sent, turn("merged", new_dir_name))
        \/ /\ args.src[child] = "project" /\ ~existed
           /\ \/ /\ history' = <<created>>
                 /\ \E out \in { <<>>, <<copied>> } :
                      stdout' = stdout \o out \o <<Line("Failed to copy", 0, child, "Error")>>
              \/ /\ stdout' = Append(stdout, Line("Failed to copy", 0, child, "OSError"))
                 /\ UNCHANGED history
           /\ sent' = Append(sent, turn("failed", new_dir_name))
  /\ pc' = "Merging"
  /\ UNCHANGED <<cmd, args, net, locals, stderr, rc>>

\* after the loop: print(Merge complete: merged_count, skipped_count)
merge_complete ==
  /\ cmd = "merge" /\ pc \in {"Idle", "Merging"} /\ args.isdir
  /\ Len(sent) = Cardinality(DOMAIN args.src)
  /\ LET count(o) == Cardinality({ i \in 1..Len(sent) : sent[i].outcome = o })
     IN stdout' = Append(stdout, Line("Merge complete: projects merged, skipped.",
                                      count("merged"), str(count("skipped")), ""))
  /\ rc' = 0
  /\ pc' = "Done"
  /\ UNCHANGED <<cmd, args, history, net, sent, locals, stderr>>

NextMerge == merge_no_source \/ merge_child \/ merge_complete

SpecMerge == InitMerge /\ [][NextMerge]_vars

(***************************************************************************)
(* Properties.                                                             *)
(***************************************************************************)
\* what the code takes the body of the response in net to be
Unwrapped == parse_possibly_json_string(try_read_response_text(net))

OpenEdges ==
  { <<"Idle", "ChallengeRequested">>, <<"ChallengeRequested", "ChallengeReceived">>,
    <<"ChallengeReceived", "ResponseSubmitted">>, <<"ResponseSubmitted", "Authenticated">> }

\* C1: a run of open moves Idle -> ChallengeRequested -> ChallengeReceived ->
\* ResponseSubmitted -> Authenticated, one state at a time, or from a state that
\* is not terminal to Failed; and the step that issues the proof POST is taken
\* from ChallengeReceived, after the one GET was answered with a success
\* response whose body decoded to challenge_bytes, with the signature over
\* these bytes produced and carried by the POST.
C1_OpenStateOrder ==
  [][cmd = "open" =>
       /\ pc' # pc =>
            \/ <<pc, pc'>> \in OpenEdges
            \/ pc \notin Terminal /\ pc' = "Failed"
       /\ (sent' # sent /\ sent'[Len(sent')].method = "POST") =>
            /\ pc = "ChallengeReceived" /\ pc' = "ResponseSubmitted"
            /\ Len(sent) = 1 /\ sent[1].method = "GET"
            /\ net.kind = "resp" /\ ok(net)
            /\ b64decode(Unwrapped).ok /\ b64decode(Unwrapped).bytes = challenge_bytes
            /\ signature_base64' # NoSig
            /\ signature_base64'.msg = challenge_bytes
            /\ sent'[2].json.Response = signature_base64']_vars

C1_Witness == cmd = "open" /\ pc = "Authenticated" /\ Len(sent) = 2

\* C2: open prints a token only when the proof POST was answered with a
\* success response; when the POST is answered with a non-success status the
\* run ends Failed with "Authentication failed: HTTP <status>", exit status 1,
\* and nothing on stdout.
C2_NoTokenWithoutPostSuccess ==
  cmd = "open" =>
    /\ stdout # <<>> =>
         /\ Len(sent) = 2 /\ sent[2].method = "POST"
         /\ net.kind = "resp" /\ ok(net)
    /\ (pc \in Terminal /\ Len(sent) = 2 /\ net.kind = "resp" /\ ~ok(net)) =>
         /\ pc = "Failed" /\ rc = 1 /\ stdout = <<>>
         /\ stderr[1] = Line("Authentication failed: HTTP", net.status, <<>>, "")

C2_Witness ==
  cmd = "open" /\ pc = "Failed" /\ Len(sent) = 2 /\ net.kind = "resp" /\ net.status = 401

EmptyOrNotString(text) ==
  LET t == strip(text)
      j == json_loads(t)
  IN t = <<>> \/ (j.ok /\ j.isStr /\ j.str = <<>>) \/ (j.ok /\ ~j.isStr)

C5_ChallengeUnavailable ==
  (cmd = "open" /\ pc # "ChallengeRequested" /\ Len(sent) = 1
     /\ (\/ net.kind = "exc"
         \/ net.kind = "resp" /\ ~ok(net)
         \/ net.kind = "resp" /\ net.readable /\ strip(net.text) = <<>>)) =>
    /\ pc = "Failed" /\ signature_base64 = NoSig
    /\ stderr[1].msg \in {"Failed to GET challenge: ", "Failed to get challenge: HTTP"}

\* RFC 4648 base64: alphabet characters, at most two trailing pads, a length
\* that is a multiple of four
ValidBase64(s) ==
  /\ Len(s) % 4 = 0
  /\ \E n \in 0..2 :
       /\ n <= Len(s)
       /\ \A i \in 1..(Len(s) - n) : s[i] \in B64Chars
       /\ \A i \in (Len(s) - n + 1)..Len(s) : s[i] = "="

\* C6: once open or create has dealt with a success response to the challenge
\* GET whose unwrapped body is not valid base64, the run has ended Failed with
\* "Challenge is not valid base64.", with no signature produced and nothing
\* submitted.
C6_MalformedChallenge ==
  (cmd \in {"open", "create"} /\ pc # "ChallengeRequested" /\ Len(sent) = 1
     /\ net.kind = "resp" /\ ok(net) /\ ~ValidBase64(Unwrapped)) =>
    /\ pc = "Failed" /\ signature_base64 = NoSig
    /\ stderr = <<Line("Challenge is not valid base64.", 0, <<>>, "")>>

\* b64decode of the key succeeds and gives 32 or 64 bytes
KeyLoads(k) == b64decode(k).ok /\ Len(b64decode(k).bytes) \in {SeedLen, RawPrivLen}

RequestsOf(c) ==
  CASE c = "open" -> <<"GET", "POST">>
    [] c = "create" -> <<"GET", "PATCH">>
    [] OTHER -> <<"POST">>

\* C8: in every flow the requests issued are a prefix of the flow's requests
\* (open: GET, POST; create: GET, PATCH; valid and destroy: one POST), each
\* issued once; requests are issued one at a time from a state that is not
\* terminal; and in a terminal state (Authenticated, Done, Invalid, Failed)
\* nothing more is issued, printed or changed.
C8_TerminalNoRetry ==
  /\ [](/\ Len(sent) <= Len(RequestsOf(cmd))
        /\ \A i \in 1..Len(sent) : sent[i].method = RequestsOf(cmd)[i]
        /\ pc \in Terminal => net.kind # "pending")
  /\ [][/\ pc \in Terminal =>
             /\ pc' = pc /\ sent' = sent /\ net' = net
             /\ stdout' = stdout /\ stderr' = stderr /\ rc' = rc
        /\ sent' # sent =>
             /\ pc \notin Terminal
             /\ Len(sent') = Len(sent) + 1
             /\ SubSeq(sent', 1, Len(sent)) = sent]_vars

C8_Witness ==
  cmd = "create" /\ pc = "Failed" /\ Len(sent) = 2 /\ net.kind = "resp" /\ ~ok(net)

\* the caller's runs so far, the current one last
Attempts ==
  Append(history, [sent |-> sent, challenge_bytes |-> challenge_bytes,
                   signature_base64 |-> signature_base64])
Fetches(a) == {i \in 1..Len(a.sent) : a.sent[i].method = "GET"}
Proofs(a) == {i \in 1..Len(a.sent) : "Response" \in a.sent[i].json.has}

\* C9: in every run of open or create, past or current, one GET fetches the
\* challenge (exactly one once the run has left Idle), at most one request
\* carries a proof, it follows the GET, and the proof is the run's signature,
\* made over the challenge bytes decoded in that same run; so no run submits
\* a signature over the different challenge of another run.  Within a run
\* challenge_bytes is set only from the GET's response, and neither it nor
\* the signature changes once the signature exists.
C9_ChallengeSingleUse ==
  /\ [](cmd \in {"open", "create"} =>
         \A k \in 1..Len(Attempts) :
           LET a == Attempts[k]
           IN /\ Cardinality(Fetches(a)) <= 1
              /\ (k < Len(Attempts) \/ pc # "Idle") => Cardinality(Fetches(a)) = 1
              /\ Cardinality(Proofs(a)) <= 1
              /\ \A i \in Proofs(a) :
                   /\ \E g \in Fetches(a) : g < i
                   /\ a.sent[i].json.Response = a.signature_base64
                   /\ a.signature_base64 # NoSig
                   /\ a.signature_base64.msg = a.challenge_bytes
                   /\ \A j \in 1..Len(Attempts) :
                        Attempts[j].challenge_bytes # a.challenge_bytes =>
                          a.sent[i].json.Response.msg # Attempts[j].challenge_bytes)
  /\ [][(cmd \in {"open", "create"} /\ history' = history) =>
          /\ challenge_bytes' # challenge_bytes =>
               /\ pc = "ChallengeRequested" /\ net.kind = "resp"
               /\ challenge_bytes' = b64decode(Unwrapped).bytes
          /\ signature_base64 # NoSig =>
               signature_base64' = signature_base64 /\ challenge_bytes' = challenge_bytes]_vars

C9_Witness ==
  /\ cmd = "create" /\ Len(history) = 1 /\ pc = "ResponseSubmitted"
  /\ Proofs(history[1]) # {}
  /\ history[1].challenge_bytes = <<0, 0, 0>>
  /\ challenge_bytes = <<1, 2, 3>>

C11_DestroyByStatusOnly ==
  (cmd = "destroy" /\ pc \in Terminal /\ net.kind = "resp") =>
    IF net.status < 400
    THEN /\ pc = "Done" /\ rc = 0 /\ stderr = <<>>
         /\ stdout = <<Line("Success", 0, <<>>, "")>>
    ELSE /\ pc = "Failed" /\ rc = 1 /\ stdout = <<>>
         /\ stderr[1] = Line("Destroy failed: HTTP", net.status, <<>>, "")
         /\ Len(stderr) = (IF net.readable /\ net.text # <<>> THEN 2 ELSE 1)
         /\ Len(stderr) = 2 => stderr[2] = Line("", 0, net.text, "")

C11_Witness ==
  /\ cmd = "destroy" /\ Len(history) = 1 /\ pc = "Done"
  /\ history[1].sent = sent
  /\ net.status = 200 /\ net.text = <<"n", "u", "l", "l">>

\* the first line of each diagnostic of create
CreateDiagnostics ==
  { "Failed to GET challenge for creator: ", "Failed to get challenge for creator: HTTP",
    "Challenge is not valid base64.", "Signing failed: ", "Create request failed: ",
    "Create failed: HTTP" }

\* C12: create prints on stdout (the keys included) only in Done, which it
\* reaches only when the PATCH was answered with a success response; a run
\* that fails at the challenge fetch, the challenge decoding, the key loading,
\* a transport failure on the PATCH or a non-success PATCH response ends
\* Failed with exit status 1, nothing on stdout, and on stderr one of the
\* fixed diagnostics followed at most by the body of the response.
C12_NoKeysOnFailure ==
  cmd = "create" =>
    /\ pc # "Done" => stdout = <<>>
    /\ pc = "Done" => Len(sent) = 2 /\ net.kind = "resp" /\ ok(net) /\ rc = 0
    /\ pc \in Terminal => pc \in {"Done", "Failed"}
    /\ pc = "Failed" =>
         /\ rc = 1
         /\ Len(stderr) \in {1, 2}
         /\ stderr[1].msg \in CreateDiagnostics /\ stderr[1].text = <<>>
         /\ Len(stderr) = 2 => stderr[2] = Line("", 0, net.text, "")
         /\ (Len(sent) = 2 /\ net.kind = "resp") => ~ok(net)

C12_Witness ==
  /\ cmd = "create" /\ pc = "Failed" /\ new_keys # NoKeys
  /\ net.kind = "resp" /\ net.status = 403 /\ stdout = <<>>

\* the seed the caller's private key holds
AuthoritySeed == SubSeq(b64decode(args.privateKeyBase64).bytes, 1, SeedLen)

\* the texts printed on stdout
Printed == {stdout[i].text : i \in 1..Len(stdout)}

\* C13: in create the new key pair comes into being in the step that issues
\* the PATCH, in the same call and only once the authority's signature exists
\* (a key that does not load produces no key pair); it is the pair
\* generate_keypair_base64 makes of a freshly drawn seed, its public half is
\* the PublicKey of the PATCH, and neither half, nor anything printed, is the
\* authority's private key, seed or public key; the authority's key enters
\* the PATCH only as the signer of Response.
C13_FreshKeyForNewIdentity ==
  /\ [](cmd = "create" =>
         /\ new_keys = NoKeys <=> Len(sent) < 2
         /\ new_keys # NoKeys =>
              LET authority == AuthoritySeed
                  seed == SubSeq(b64decode(new_keys.priv).bytes, 1, SeedLen)
                  authority_texts == { args.privateKeyBase64, b64encode(authority),
                                       b64encode(DerivePublic(authority)) }
              IN /\ seed \in GeneratedSeeds
                 /\ new_keys = generate_keypair_base64(seed)
                 /\ signature_base64 = Ed25519Sign(authority, challenge_bytes)
                 /\ sent[2].json.Response = signature_base64
                 /\ sent[2].json.PublicKey = new_keys.pub
                 /\ seed # authority
                 /\ {new_keys.priv, new_keys.pub} \cap authority_texts = {}
                 /\ Printed \cap authority_texts = {})
  /\ [][(cmd = "create" /\ new_keys' # new_keys /\ history' = history) =>
          /\ pc = "ChallengeReceived" /\ pc' = "ResponseSubmitted"
          /\ new_keys = NoKeys /\ signature_base64 = NoSig
          /\ signature_base64' # NoSig
          /\ Len(sent') = 2 /\ sent'[2].json.PublicKey = new_keys'.pub]_vars

C13_Witness ==
  /\ cmd = "create" /\ pc = "Done" /\ args.privateKeyBase64 = Key64
  /\ Len(stdout) = 5 /\ stdout[3].text = new_keys.priv /\ stdout[5].text = new_keys.pub
  /\ sent[2].json.PublicKey = new_keys.pub

\* C14: the second request of create is a PATCH to the URL of the challenge
\* GET whose body has exactly the fields Response, Name, Parent, Privilege and
\* PublicKey: the signature made over this run's challenge bytes, the new
\* username, the authority username, the privilege as given, and the public
\* half of the new key pair; and when the run ends Done the keys printed are
\* that pair, the public key being the PublicKey that was submitted.
C14_PatchPayload ==
  (cmd = "create" /\ Len(sent) = 2) =>
    LET patch == sent[2]
    IN /\ patch.method = "PATCH" /\ patch.url = sent[1].url
       /\ patch.json.has = {"Response", "Name", "Parent", "Privilege", "PublicKey"}
       /\ patch.json.Response = signature_base64
       /\ signature_base64 # NoSig /\ signature_base64.msg = challenge_bytes
       /\ patch.json.Name = args.newUsername
       /\ patch.json.Parent = args.user
       /\ patch.json.Privilege = args.privilege
       /\ patch.json.PublicKey = new_keys.pub /\ new_keys # NoKeys
       /\ pc = "Done" =>
            /\ Len(stdout) = 5
            /\ stdout[3].text = new_keys.priv
            /\ stdout[5].text = patch.json.PublicKey

C14_Witness ==
  /\ cmd = "create" /\ pc = "Done" /\ args.privilege = 1
  /\ args.user = <<"a", "/", "b">> /\ challenge_bytes = <<0, 0, 0>>
  /\ stdout[5].text = sent[2].json.PublicKey

\* sub occurs in text
Contains(text, sub) ==
  /\ sub # <<>>
  /\ \E i \in 1..(Len(text) - Len(sub) + 1) : SubSeq(text, i, i + Len(sub) - 1) = sub

\* a private key as text: the encoding itself and, when it decodes to a seed,
\* the encoding of the seed alone
PrivateTexts(key) ==
  LET raw == b64decode(key)
  IN {key} \cup (IF raw.ok /\ Len(raw.bytes) >= SeedLen
                 THEN {b64encode(SubSeq(raw.bytes, 1, SeedLen))} ELSE {})

\* the texts a request carries
RequestTexts(req) == {req.url, req.json.Name, req.json.Parent, req.json.PublicKey}

\* C15: every request of open, valid, destroy and create, at the moment it is
\* issued, carries in its URL and in the text fields of its body neither the
\* caller's private key text or encoded seed nor the private half or encoded
\* seed of the key pair create generated; its Response field, when present, is
\* a signature and its PublicKey field, when present, is the new public key.
\* (sent starts empty and only grows by such steps, so no request ever sent
\* holds a private key.)
C15_NoPrivateKeyTransmitted ==
  [][(sent' # sent /\ history' = history) =>
       LET req == sent'[Len(sent')]
           secrets == PrivateTexts(args.privateKeyBase64) \cup
                      (IF new_keys' # NoKeys THEN PrivateTexts(new_keys'.priv) ELSE {})
       IN /\ sent' = Append(sent, req)
          /\ \A text \in RequestTexts(req) : \A secret \in secrets : ~Contains(text, secret)
          /\ "Response" \in req.json.has =>
               req.json.Response = Ed25519Sign(AuthoritySeed, challenge_bytes)
          /\ "Response" \notin req.json.has => req.json.Response = NoSig
          /\ req.json.PublicKey \in {<<>>, new_keys'.pub}]_vars

C15_Witness ==
  /\ cmd = "create" /\ pc = "Done" /\ args.privateKeyBase64 = Key32
  /\ sent[2].json.PublicKey = new_keys.pub
  /\ Len(sent[2].json.PublicKey) = Len(args.privateKeyBase64)

\* the secrets of a run, as text: the private key supplied, the signature
\* computed, the private key generated
SecretTexts ==
  PrivateTexts(args.privateKeyBase64)
  \cup (IF signature_base64 # NoSig THEN {SignatureText(signature_base64)} ELSE {})
  \cup (IF new_keys # NoKeys THEN PrivateTexts(new_keys.priv) ELSE {})

\* C16: no line written to stderr, the echoed body of the service's response
\* included, contains the private key supplied, the signature computed or the
\* private key generated by create.
C16_NoSecretInDiagnostics ==
  \A i \in 1..Len(stderr) :
    stderr[i].text # <<>> =>
      \A secret \in SecretTexts : ~Contains(stderr[i].text, secret)

\* C17: once open or create has tried to load the private key, the key was
\* accepted (the proof request went out, signed with the first 32 decoded
\* bytes) exactly when it is valid base64 that decodes to 32 or 64 bytes; a
\* key that is not valid base64 ended the run with "Signing failed:
\* privateKeyBase64 is not valid base64", and a valid one of another decoded
\* length with "Signing failed: Unsupported private key length".
C17_LoadAcceptance ==
  (/\ cmd \in {"open", "create"}
   /\ \/ Len(sent) = 2
      \/ pc = "Failed" /\ stderr[1].msg = "Signing failed: ") =>
    LET key == args.privateKeyBase64
        raw == b64decode(key)
    IN IF ~ValidBase64(key)
       THEN /\ pc = "Failed" /\ Len(sent) = 1 /\ signature_base64 = NoSig
            /\ stderr[1].e = "privateKeyBase64 is not valid base64"
       ELSE IF Len(raw.bytes) \notin {SeedLen, RawPrivLen}
       THEN /\ pc = "Failed" /\ Len(sent) = 1 /\ signature_base64 = NoSig
            /\ stderr[1].e = "Unsupported private key length"
            /\ stderr[1].status = Len(raw.bytes)
       ELSE /\ Len(sent) = 2
            /\ signature_base64 = Ed25519Sign(SubSeq(raw.bytes, 1, SeedLen), challenge_bytes)

\* C18: when open or create signs with a private key that decodes to 64
\* bytes, whatever its last 32 bytes are, the key loads (the run goes on to
\* submit the proof) and the signature is the one that signing the same
\* challenge bytes with the 32-byte encoding of its first 32 bytes gives.
C18_SeedAloneDeterminesSignature ==
  [][(/\ cmd \in {"open", "create"} /\ pc = "ChallengeReceived" /\ pc' # pc
      /\ b64decode(args.privateKeyBase64).ok
      /\ Len(b64decode(args.privateKeyBase64).bytes) = RawPrivLen) =>
       LET seed == SubSeq(b64decode(args.privateKeyBase64).bytes, 1, SeedLen)
           short == sign_with_private_base64(b64encode(seed), challenge_bytes)
       IN /\ Len(b64decode(b64encode(seed)).bytes) = SeedLen
          /\ short.ok
          /\ pc' = "ResponseSubmitted" /\ stderr' = stderr
          /\ signature_base64' = short.sig
          /\ signature_base64' = Ed25519Sign(seed, challenge_bytes)
          /\ sent'[2].json.Response = short.sig]_vars

C18_Witness ==
  /\ cmd = "open" /\ pc = "Authenticated" /\ history = <<>>
  /\ args.privateKeyBase64 = b64encode(OtherSeed \o [i \in 1..SeedLen |-> 0])
  /\ signature_base64 = Ed25519Sign(OtherSeed, <<1, 2, 3>>)

\* C19: the private key create generates is valid base64 of 64 bytes: the
\* seed that was drawn, then the public key of that seed, which is also what
\* the generated public key decodes to; sign_with_private_base64 accepts it;
\* and when the new user runs open with the private key that was printed,
\* the key loads and signs with the drawn seed, whose public key is the
\* PublicKey create submitted.
C19_GenerateLoadRoundTrip ==
  /\ [](new_keys # NoKeys =>
         LET raw == b64decode(new_keys.priv)
             pub == b64decode(new_keys.pub)
             seed == SubSeq(raw.bytes, 1, SeedLen)
         IN /\ raw.ok /\ ValidBase64(new_keys.priv) /\ Len(raw.bytes) = RawPrivLen
            /\ pub.ok /\ ValidBase64(new_keys.pub) /\ Len(pub.bytes) = SeedLen
            /\ seed \in GeneratedSeeds
            /\ SubSeq(raw.bytes, SeedLen + 1, RawPrivLen) = pub.bytes
            /\ pub.bytes = DerivePublic(seed)
            /\ sign_with_private_base64(new_keys.priv, challenge_bytes)
                 = [ok |-> TRUE, err |-> "", n |-> 0,
                    sig |-> Ed25519Sign(seed, challenge_bytes)])
  /\ [][(cmd = "open" /\ history # <<>> /\ history' = history
           /\ pc = "ChallengeReceived" /\ pc' # pc) =>
          /\ pc' = "ResponseSubmitted"
          /\ signature_base64'.seed \in GeneratedSeeds
          /\ signature_base64'.msg = challenge_bytes
          /\ history[1].sent[2].json.PublicKey
               = b64encode(DerivePublic(signature_base64'.seed))]_vars

C19_Witness ==
  /\ cmd = "open" /\ history # <<>> /\ pc = "Authenticated"
  /\ args.user = <<"b", "o", "b">>
  /\ args.privateKeyBase64 \notin KeyEncodings
  /\ signature_base64.seed \in GeneratedSeeds

\* text does not both start and end with a double quote
NoSurroundingQuotes(text) ==
  ~(Len(text) >= 2 /\ text[1] = DQ /\ text[Len(text)] = DQ)

\* C20: for every response body s that is already trimmed and has no
\* surrounding quotes, parse_possibly_json_string gives s for s and gives s
\* for s wrapped in double quotes, so unwrapping what was unwrapped changes
\* nothing; and valid, answered with such a body and a success status,
\* prints s.
C20_UnwrapIdempotent ==
  (net.kind = "resp" /\ net.readable /\ strip(net.text) = net.text
     /\ NoSurroundingQuotes(net.text)) =>
    /\ parse_possibly_json_string(net.text) = net.text
    /\ parse_possibly_json_string(<<DQ>> \o net.text \o <<DQ>>) = net.text
    /\ parse_possibly_json_string(parse_possibly_json_string(net.text)) = net.text
    /\ (cmd = "valid" /\ pc = "Done") => stdout = <<Line("", 0, net.text, "")>>

\* the first request of a flow
FirstRequest(c, a) ==
  CASE c \in {"open", "create"} ->
         Request("GET", full_url(create_session(a.baseUrl), UserPath(a.user)), NoPayload)
    [] c = "valid" ->
         Request("POST", full_url(create_session(a.baseUrl), ValidatePath(a.token)), NoPayload)
    [] OTHER ->
         Request("POST", full_url(create_session(a.baseUrl), DestroyPath(a.token)), NoPayload)

\* where a flow ends, given the outcome of its own last request
ExpectedEnd(c) ==
  LET answered == c.net.kind = "resp" /\ ok(c.net)
      body == parse_possibly_json_string(try_read_response_text(c.net))
  IN CASE c.cmd = "open" ->
            IF Len(c.sent) = 2 /\ answered /\ body # <<>> THEN "Authenticated" ELSE "Failed"
       [] c.cmd = "create" ->
            IF Len(c.sent) = 2 /\ answered THEN "Done" ELSE "Failed"
       [] c.cmd = "destroy" -> IF answered THEN "Done" ELSE "Failed"
       [] OTHER ->
            IF answered /\ body # <<>> THEN "Done"
            ELSE IF c.net.kind = "exc" THEN "Failed" ELSE "Invalid"

\* the requests and the outcome of a flow follow from its own arguments and
\* from the outcomes of its own requests
Determined(c) ==
  /\ Len(c.sent) >= 1 => c.sent[1] = FirstRequest(c.cmd, c.args)
  /\ Len(c.sent) = 2 =>
       /\ c.sent[2].url = c.sent[1].url
       /\ c.sent[2].json.Response =
            Ed25519Sign(SubSeq(b64decode(c.args.privateKeyBase64).bytes, 1, SeedLen),
                        c.challenge_bytes)
  /\ c.pc \in Terminal =>
       /\ c.pc = ExpectedEnd(c)
       /\ c.rc = (IF c.pc \in {"Authenticated", "Done"} THEN 0 ELSE 1)
       /\ c.stdout # <<>> <=> c.pc # "Failed"
       /\ c.stderr # <<>> <=> c.pc = "Failed"

\* C21: when the steps of two flows (any two of open, valid, destroy and
\* create) interleave, every step either is a step of the running flow, taken
\* as that flow takes it alone and leaving the suspended flow as it was, or is
\* a switch that changes neither flow; and in every state the requests and
\* the outcome of each of the two flows are those its own arguments and the
\* outcomes of its own requests determine, whatever the other flow did (a
\* failure of one included).
C21_FlowsIndependent ==
  /\ [](Determined(Running) /\ Determined(history[1]))
  /\ [][\/ history' = history /\ (http_exchange_concurrent \/ Client)
        \/ history' = <<Running>> /\ Running' = history[1]]_vars

C21_Witness ==
  /\ cmd = "open" /\ pc = "Authenticated"
  /\ history[1].cmd = "create" /\ history[1].pc = "Failed" /\ Len(history[1].sent) = 2
  /\ history[1].net.kind = "exc"

\* which condition a diagnostic of open or create reports
FailureKind(msg) ==
  CASE msg \in {"Failed to GET challenge: ", "Failed to GET challenge for creator: "} ->
         "transport"
    [] msg \in {"Failed to get challenge: HTTP", "Failed to get challenge for creator: HTTP"} ->
         "status"
    [] msg = "Challenge is not valid base64." -> "decode"
    [] msg = "Signing failed: " -> "sign"
    [] OTHER -> "later"

\* the flow has dealt with the outcome of its challenge GET and gone no further
AfterChallenge(c) ==
  /\ Len(c.sent) = 1 /\ c.net.kind \in {"resp", "exc"}
  /\ \/ c.pc = "ChallengeReceived"
     \/ c.pc = "Failed" /\ FailureKind(c.stderr[1].msg) # "sign"

\* the flow has tried to load the key and sign
AfterSigning(c) ==
  \/ Len(c.sent) = 2
  \/ c.pc = "Failed" /\ Len(c.sent) = 1 /\ FailureKind(c.stderr[1].msg) = "sign"

\* C22: for an open flow and a create flow run with the same base address,
\* username and private key: they issue the same GET; when both have dealt
\* with the same outcome of the GET, both have failed on the same condition
\* or both hold the same challenge bytes; when both have tried to sign the
\* same challenge bytes, both have failed on the same key error, with nothing
\* more sent, or both have submitted the same signature to the same address;
\* and create holds a new key pair exactly when its signing step succeeded.
C22_CreateSharesOpenHandshake ==
  LET o == Running
      c == history[1]
  IN (/\ o.cmd = "open" /\ c.cmd = "create"
      /\ o.args.baseUrl = c.args.baseUrl /\ o.args.user = c.args.user
      /\ o.args.privateKeyBase64 = c.args.privateKeyBase64) =>
       /\ (o.sent # <<>> /\ c.sent # <<>>) => o.sent[1] = c.sent[1]
       /\ (AfterChallenge(o) /\ AfterChallenge(c) /\ o.net = c.net) =>
            /\ o.pc = c.pc /\ o.challenge_bytes = c.challenge_bytes
            /\ o.pc = "Failed" =>
                 /\ FailureKind(o.stderr[1].msg) = FailureKind(c.stderr[1].msg)
                 /\ Tail(o.stderr) = Tail(c.stderr)
       /\ (AfterSigning(o) /\ AfterSigning(c) /\ o.challenge_bytes = c.challenge_bytes) =>
            /\ Len(o.sent) = Len(c.sent)
            /\ o.signature_base64 = c.signature_base64
            /\ Len(o.sent) = 1 => o.stderr = c.stderr
            /\ Len(o.sent) = 2 =>
                 /\ o.sent[2].url = c.sent[2].url
                 /\ o.sent[2].json.Response = c.sent[2].json.Response
                 /\ o.signature_base64 # NoSig
       /\ c.new_keys # NoKeys <=> Len(c.sent) = 2

C22_Witness ==
  /\ cmd = "open" /\ history[1].cmd = "create"
  /\ args.privateKeyBase64 = Key32 /\ history[1].args.privateKeyBase64 = Key32
  /\ pc = "ResponseSubmitted" /\ history[1].pc = "ResponseSubmitted"
  /\ challenge_bytes = <<0, 0, 0>> /\ history[1].challenge_bytes = <<0, 0, 0>>
  /\ signature_base64 = history[1].signature_base64

\* C23: once create has ended, if it ended Failed after the PATCH (a
\* transport failure or timeout on the PATCH included) the service has bound
\* no key; and if the service has bound the PublicKey of the PATCH, the run
\* ended Done with the matching private key printed.
C23_BoundKeyIsReturned ==
  (cmd = "create" /\ pc \in Terminal /\ Len(sent) = 2) =>
    /\ pc = "Failed" => ~net.applied
    /\ net.applied =>
         /\ pc = "Done" /\ rc = 0
         /\ Line("", 0, new_keys.priv, "") \in {stdout[i] : i \in 1..Len(stdout)}
         /\ sent[2].json.PublicKey = new_keys.pub

\* the two-path parse: the decoded string of a JSON string literal, else the
\* text without one layer of surrounding double quotes, else the text
TwoPathParse(body) ==
  LET text == strip(body)
      parsed == json_loads(text)
  IN IF text # <<>> /\ parsed.ok /\ parsed.isStr THEN parsed.str
     ELSE IF Len(text) >= 2 /\ text[1] = DQ /\ text[Len(text)] = DQ
     THEN SubSeq(text, 2, Len(text) - 1)
     ELSE text

\* C24: what the code takes the body of a response to be is the two-path
\* parse of the body: its decoded string when the trimmed body is a JSON
\* string literal; otherwise the trimmed body without its surrounding double
\* quotes when it starts and ends with one; otherwise the trimmed body itself,
\* also when the body is valid JSON that is not a string; and that is what
\* valid prints as the username.
C24_TwoPathParse ==
  (net.kind = "resp" /\ net.readable) =>
    /\ Unwrapped = TwoPathParse(net.text)
    /\ (cmd = "valid" /\ pc = "Done") => stdout = <<Line("", 0, TwoPathParse(net.text), "")>>

\* the lines a flow prints on success: the token, the username, Success
SuccessOutput ==
  /\ stdout # <<>>
  /\ stdout[1].msg \in {"", "Success"}
  /\ stdout[1].msg = "" => stdout[1].text # <<>>

\* the fixed number of round trips of a command
RoundTrips(c) == IF c \in {"open", "create"} THEN 2 ELSE 1

\* nothing went wrong in the run: the command is known, its arguments could
\* be encoded, every round trip ended in a success response, the private key
\* is valid base64 that loads
NoError ==
  /\ cmd \in Commands
  /\ Encodable(args)
  /\ Len(sent) = RoundTrips(cmd)
  /\ net.kind = "resp" /\ ok(net)
  /\ cmd \in {"open", "create"} =>
       /\ ValidBase64(args.privateKeyBase64)
       /\ sign_with_private_base64(args.privateKeyBase64, challenge_bytes).ok
       /\ signature_base64 # NoSig

\* C25: every error is surfaced: the exit status is 0 exactly when the flow
\* printed its success output and ended in its success outcome; a run that
\* met a transport failure, a timeout, a non-success response, a decoding or
\* key error, an unknown command or an unexpected exception ends with a
\* non-zero status and without success output; a run that has not ended has
\* printed nothing and has no status.
C25_ErrorsSurfaced ==
  /\ rc = 0 <=> SuccessOutput
  /\ rc = 0 <=> pc \in {"Authenticated", "Done"}
  /\ rc = 0 => NoError
  /\ rc # -1 <=> pc \in Terminal
  /\ rc \in {-1, 0, 1, 2, 3}
  /\ pc \notin Terminal => stdout = <<>> /\ stderr = <<>>
  /\ (pc \in Terminal /\ rc # 0) => (stderr # <<>> \/ stdout # <<>>)

\* C26: every flow terminates: when every request in flight ends (response,
\* failure or timeout), the run reaches a terminal outcome, and it never
\* makes more round trips than its command's fixed number (open 2, create 2,
\* valid 1, destroy 1).
C26_FlowTerminates ==
  /\ <>(pc \in Terminal /\ rc # -1)
  /\ [](Len(sent) <= RoundTrips(cmd))
  /\ [](pc \in Terminal => net.kind # "pending")

\* C26 witness: create has ended in success after its two round trips.
C26_Witness ==
  cmd = "create" /\ pc = "Done" /\ rc = 0 /\ Len(sent) = 2

\* C27: the token is handled verbatim: the token parameter of the request of
\* valid or destroy, percent-decoded, is the token given on the command line;
\* and when that token is the one open printed, the service receives the
\* value it issued.
C27_TokenVerbatim ==
  (cmd \in {"valid", "destroy"} /\ Len(sent) = 1) =>
    /\ unquote(TokenParameter(sent[1].url)) = args.token
    /\ history # <<>> => unquote(TokenParameter(sent[1].url)) = history[1].issued

\* the path of the requests of a command, after the one slash
RequestPath(c, a) ==
  CASE c = "valid" -> ValidatePath(a.token)
    [] c = "destroy" -> DestroyPath(a.token)
    [] OTHER -> UserPath(a.user)

\* C28: request addresses are trailing-slash-normalized: whatever the number
\* of trailing slashes of the base address (none, one, several), every
\* request of a flow goes to the same URL, the base without its trailing
\* slashes, one slash, and the path; and the GET and the POST/PATCH of open
\* and create go to the same /api/user/{username} address.
C28_TrailingSlashNormalized ==
  /\ \A i \in 1..Len(sent) :
       /\ sent[i].url = <<"h", "/">> \o RequestPath(cmd, args)
       /\ sent[i].url[2] = "/" /\ sent[i].url[3] # "/"
  /\ Len(sent) = 2 =>
       /\ sent[1].method = "GET" /\ sent[2].method \in {"POST", "PATCH"}
       /\ sent[1].url = sent[2].url
       /\ SubSeq(sent[2].url, 3, 2 + Len(ApiUser)) = ApiUser

\* C28 witness: create, given the base address with two trailing slashes, has
\* sent its GET and its PATCH.
C28_Witness ==
  /\ cmd = "create" /\ args.baseUrl = <<"h", "/", "/">>
  /\ Len(sent) = 2 /\ sent[2].method = "PATCH"

\* the fields update_summary does not recompute
KeptKeys == {"name", "comment", "star", "like", "author"}

\* C29: update_summary preserves what it does not recompute: after a call on
\* a directory whose summary.json existed (as a JSON object), the stored
\* name, comment, star, like and author are written back unchanged whatever
\* name and author were passed; the stored group is kept when no group was
\* given and replaced by the given group otherwise; among the stored fields
\* that are written back, only duration and gallery (and a group that was
\* given) can differ from what was stored, duration being the probed
\* duration when there is a video and gallery the sorted listing when there
\* is a gallery directory.
C29_SummaryPreserved ==
  (cmd = "update_summary" /\ pc = "Done" /\ history[1].summary.exists
     /\ history[1].summary.valid) =>
    LET stored == history[1].summary.data
        written == history[2].summary.data
    IN /\ history[2].summary.exists /\ history[2].summary.valid
       /\ \A k \in KeptKeys \cap DOMAIN stored :
            k \in DOMAIN written /\ written[k] = stored[k]
       /\ ("group" \in DOMAIN stored /\ args.group_input = None) =>
            "group" \in DOMAIN written /\ written["group"] = stored["group"]
       /\ args.group_input # None =>
            "group" \in DOMAIN written /\ written["group"] = args.group_input
       /\ \A k \in DOMAIN stored \cap DOMAIN written :
            written[k] # stored[k] =>
              \/ k = "duration" /\ history[1].video /\ written[k] \in {VideoMs, 0}
              \/ k = "gallery" /\ history[1].hasGallery
                   /\ written[k] = sorted(history[1].gallery)
              \/ k = "group" /\ args.group_input # None
       /\ history[2].video = history[1].video
       /\ history[2].gallery = history[1].gallery

\* C29 witness: a call with a name, an author and no group on a directory
\* whose summary.json stored a name, an author and a group, with a video and
\* a gallery directory, has written the summary.
C29_Witness ==
  /\ cmd = "update_summary" /\ pc = "Done"
  /\ args.name_input # None /\ args.author_input # None /\ args.group_input = None
  /\ history[1].summary.valid
  /\ {"name", "author", "group", "comment"} \subseteq DOMAIN history[1].summary.data
  /\ history[1].video /\ history[1].hasGallery /\ history[1].gallery # {}
  /\ history[2].summary.data["group"] = "stored group"
  /\ history[2].summary.data["duration"] = VideoMs

\* the pages the directory held when the run started
OriginalPages == { args.listdir[i] : i \in 1..Len(args.listdir) }

\* C30: the page-renaming step loses no page: at every moment every original
\* page is stored in the directory under exactly one name (no rename has
\* replaced a file), and when the step has ended the directory holds exactly
\* the N files named 1..N, zero-padded, with their extensions, as listed in
\* new_filenames.
C30_NoPageLost ==
  cmd = "image-creator" =>
    LET disk == history[1]
    IN /\ Cardinality(DOMAIN disk) = Cardinality(OriginalPages)
       /\ \A page \in OriginalPages : \E n \in DOMAIN disk : disk[n] = page
       /\ pc = "Done" =>
            /\ DOMAIN disk = { sent[i] : i \in 1..Len(sent) }
            /\ Len(sent) = Cardinality(OriginalPages)
            /\ \A i \in 1..Len(sent) :
                 sent[i] = ZeroPadded(str(i), Len(str(Len(sent)))) \o splitext(disk[sent[i]])

\* C31: project-ID allocation never reuses an existing entry: every name
\* merge_projects allocates did not exist in dst when it was allocated, the
\* names projects are copied under are pairwise distinct, every entry dst
\* held at the start is still there unchanged, and a project that follows a
\* failed copy is not made to fail by it (its name is free when allocated).
C31_NeverReusesEntry ==
  cmd = "merge" =>
    /\ \A i \in 1..Len(sent) : sent[i].new_dir_name # <<>> => ~sent[i].existed
    /\ \A i, j \in 1..Len(sent) :
         (i # j /\ sent[i].outcome = "merged" /\ sent[j].outcome = "merged")
           => sent[i].new_dir_name # sent[j].new_dir_name
    /\ \A n \in DOMAIN args.dst : n \in DOMAIN history[1] /\ history[1][n] = args.dst[n]
    /\ \A i, j \in 1..Len(sent) :
         (i < j /\ sent[i].outcome = "failed" /\ sent[j].new_dir_name # <<>>)
           => ~sent[j].existed

====
